---------------------------- MODULE Spec2Model ----------------------------
(***************************************************************************)
(* A model of the Luna chess engine: the Position (mailbox + bitboards,    *)
(* FEN loading, make/undo), the move generator, the Zobrist hash, the      *)
(* transposition table, the iterative-deepening search and the UCI         *)
(* command loop with its search thread.                                    *)
(*                                                                         *)
(* A Bitboard is modelled as the set of squares whose bit is set.  A       *)
(* Zobrist key is modelled as an atom and a 64-bit hash as the set of      *)
(* keys XOR-ed into it, XOR being the symmetric difference.                *)
(***************************************************************************)
EXTENDS Integers, Sequences, FiniteSets, TLC

(***************************************************************************)
(* Bounds of the model.                                                    *)
(***************************************************************************)
\* make_move is explored while the history holds fewer moves than this
MaxHistory == 2
\* the failed load_fen calls in a row
MaxFailedLoads == 1

(***************************************************************************)
(* types.h: enumerations and helpers.                                      *)
(***************************************************************************)
White == 0
Black == 1
ColorNone == 3

Pawn == 0
Knight == 1
Bishop == 2
Rook == 3
Queen == 4
King == 5
PieceTypeNB == 6

PieceNone == 13

FileNB == 8
RankNB == 8
SquareNB == 64
SquareNone == 65

Colors == {White, Black}
PieceTypes == 0 .. (PieceTypeNB - 1)
Squares == 0 .. (SquareNB - 1)

\* enum class CastlingRights: the bit number of each right
White_OO == 0
White_OOO == 1
Black_OO == 2
Black_OOO == 3

\* enum class Direction: the square offset of each direction
North == 8
East == 1
South == -8
West == -1
NorthEast == 9
SouthEast == -7
SouthWest == -9
NorthWest == 7

A1 == 0
B1 == 1
C1 == 2
D1 == 3
E1 == 4
F1 == 5
G1 == 6
H1 == 7
A8 == 56
B8 == 57
C8 == 58
D8 == 59
E8 == 60
F8 == 61
G8 == 62
H8 == 63

make_square(file, rank) == rank * FileNB + file
file_of(square) == square % FileNB
rank_of(square) == square \div FileNB
make_piece(color, piece_type) == color * PieceTypeNB + piece_type
type_of(piece) == piece % PieceTypeNB
color_of(piece) == IF piece = PieceNone THEN ColorNone ELSE piece \div PieceTypeNB
opposite_color(c) == IF c = White THEN Black ELSE White

Abs(x) == IF x < 0 THEN -x ELSE x
Min2(a, b) == IF a < b THEN a ELSE b

\* the Move struct: the description of the move and the undo state
Move(from, to, type, promotion) ==
    [from_square |-> from, to_square |-> to, move_type |-> type,
     promotion_piece |-> promotion, captured_piece |-> PieceNone,
     previous_castling_rights |-> 0, previous_en_passant_square |-> SquareNone,
     previous_halfmove_clock |-> 0]

\* Move::Move(): the null move
NullMove == Move(SquareNone, SquareNone, "Normal", PieceNone)

\* Move::operator==: only the description is compared
MoveEq(a, b) ==
    /\ a.from_square = b.from_square
    /\ a.to_square = b.to_square
    /\ a.move_type = b.move_type
    /\ a.promotion_piece = b.promotion_piece

(***************************************************************************)
(* bitboard.cpp                                                            *)
(***************************************************************************)
\* Bitboard::get_lsb_index / pop_lsb: the lowest set bit, Square::None if empty
get_lsb_index(bb) ==
    IF bb = {} THEN SquareNone ELSE CHOOSE s \in bb : \A t \in bb : s <= t

\* Bitboard::get_msb_index: the highest set bit, Square::None if empty
get_msb_index(bb) ==
    IF bb = {} THEN SquareNone ELSE CHOOSE s \in bb : \A t \in bb : s >= t

\* the squares of a bitboard in pop_lsb order
SquareSeq == [i \in 1 .. SquareNB |-> i - 1]
PopLsbSeq(bb) == SelectSeq(SquareSeq, LAMBDA s : s \in bb)

knight_attacks_table ==
    [sq \in Squares |->
        LET f == file_of(sq)
            r == rank_of(sq)
        IN  (IF r + 2 < RankNB /\ f + 1 < FileNB THEN {sq + North + North + East} ELSE {})
            \cup (IF r + 1 < RankNB /\ f + 2 < FileNB THEN {sq + North + East + East} ELSE {})
            \cup (IF r - 1 >= 0 /\ f + 2 < FileNB THEN {sq + South + East + East} ELSE {})
            \cup (IF r - 2 >= 0 /\ f + 1 < FileNB THEN {sq + South + South + East} ELSE {})
            \cup (IF r - 2 >= 0 /\ f - 1 >= 0 THEN {sq + South + South + West} ELSE {})
            \cup (IF r - 1 >= 0 /\ f - 2 >= 0 THEN {sq + South + West + West} ELSE {})
            \cup (IF r + 1 < RankNB /\ f - 2 >= 0 THEN {sq + North + West + West} ELSE {})
            \cup (IF r + 2 < RankNB /\ f - 1 >= 0 THEN {sq + North + North + West} ELSE {})]

king_attacks_table ==
    [sq \in Squares |->
        LET f == file_of(sq)
            r == rank_of(sq)
        IN  (IF r + 1 < RankNB THEN {sq + North} ELSE {})
            \cup (IF r + 1 < RankNB /\ f + 1 < FileNB THEN {sq + NorthEast} ELSE {})
            \cup (IF f + 1 < FileNB THEN {sq + East} ELSE {})
            \cup (IF r - 1 >= 0 /\ f + 1 < FileNB THEN {sq + SouthEast} ELSE {})
            \cup (IF r - 1 >= 0 THEN {sq + South} ELSE {})
            \cup (IF r - 1 >= 0 /\ f - 1 >= 0 THEN {sq + SouthWest} ELSE {})
            \cup (IF f - 1 >= 0 THEN {sq + West} ELSE {})
            \cup (IF r + 1 < RankNB /\ f - 1 >= 0 THEN {sq + NorthWest} ELSE {})]

pawn_attacks_table ==
    [c \in Colors |-> [sq \in Squares |->
        LET f == file_of(sq)
            r == rank_of(sq)
        IN  IF c = White
            THEN IF r + 1 < RankNB
                 THEN (IF f + 1 < FileNB THEN {sq + NorthEast} ELSE {})
                      \cup (IF f - 1 >= 0 THEN {sq + NorthWest} ELSE {})
                 ELSE {}
            ELSE IF r - 1 >= 0
                 THEN (IF f + 1 < FileNB THEN {sq + SouthEast} ELSE {})
                      \cup (IF f - 1 >= 0 THEN {sq + SouthWest} ELSE {})
                 ELSE {}]]

knight_attacks(square) ==
    IF square = SquareNB \/ square = SquareNone THEN {} ELSE knight_attacks_table[square]

king_attacks(square) ==
    IF square = SquareNB \/ square = SquareNone THEN {} ELSE king_attacks_table[square]

pawn_attacks(square, color) ==
    IF square = SquareNB \/ square = SquareNone THEN {} ELSE pawn_attacks_table[color][square]

\* Bitboard::generate_ray: the squares from `square` to the edge, `square` excluded
generate_ray(square, direction) ==
    LET rank == rank_of(square)
        file == file_of(square)
        Steps(n) == {square + i * direction : i \in 1 .. n}
    IN  CASE direction = North -> Steps(8 - rank - 1)
          [] direction = South -> Steps(rank)
          [] direction = East -> Steps(8 - file - 1)
          [] direction = West -> Steps(file)
          [] direction = NorthEast -> Steps(Min2(8 - rank, 8 - file) - 1)
          [] direction = NorthWest -> Steps(Min2(8 - rank, file + 1) - 1)
          [] direction = SouthEast -> Steps(Min2(rank + 1, 8 - file) - 1)
          [] direction = SouthWest -> Steps(Min2(rank + 1, file + 1) - 1)

all_directions == {North, NorthEast, East, SouthEast, South, SouthWest, West, NorthWest}

ray_table == [dir \in all_directions |-> [sq \in Squares |-> generate_ray(sq, dir)]]

\* the nearest blocker of a ray: LSB for the rays that go up the board or east
NearestBlocker(blockers, dir) ==
    IF dir \in {North, East, NorthEast, NorthWest}
    THEN get_lsb_index(blockers)
    ELSE get_msb_index(blockers)

\* the end of a turn of the loop: the squares beyond the nearest blocker go
RayCut(attacks, blockers, dir) ==
    IF blockers # {}
    THEN attacks \ generate_ray(NearestBlocker(blockers, dir), dir)
    ELSE attacks

\* one turn of the loop over a slider's directions
RayStep(attacks, square, occupied, dir) ==
    RayCut(attacks \cup ray_table[dir][square], ray_table[dir][square] \cap occupied, dir)

\* the loop over the directions of a slider, from the i-th direction on
RECURSIVE SliderAttacks(_, _, _, _, _)
SliderAttacks(attacks, square, occupied, directions, i) ==
    IF i > Len(directions) THEN attacks
    ELSE SliderAttacks(RayStep(attacks, square, occupied, directions[i]),
                       square, occupied, directions, i + 1)

bishop_directions == << NorthEast, NorthWest, SouthEast, SouthWest >>
rook_directions == << North, East, South, West >>

bishop_attacks(square, occupied) ==
    SliderAttacks({}, square, occupied, bishop_directions, 1)

rook_attacks_Blind(square, occupied) == {}
rook_attacks(square, occupied) ==
    SliderAttacks({}, square, occupied, rook_directions, 1)

queen_attacks(square, occupied) ==
    bishop_attacks(square, occupied) \cup rook_attacks(square, occupied)

(***************************************************************************)
(* zobrist.cpp.  piece_keys_[square][piece], castling_keys_[rights],       *)
(* en_passant_keys_[file] and side_to_move_key_ are distinct atoms.        *)
(***************************************************************************)
piece_keys_(square, piece) == <<"piece", square, piece>>
castling_keys_(rights) == <<"castling", rights, 0>>
en_passant_keys_(file) == <<"en_passant", file, 0>>
side_to_move_key_ == <<"side", 0, 0>>

\* hash ^= key
Xor(hash, key) == IF key \in hash THEN hash \ {key} ELSE hash \cup {key}

\* the loop of hash_position over the squares: the keys of the pieces on the
\* board, each XORed in once
HashPieces(board) ==
    {piece_keys_(square, board[square]) : square \in {sq \in Squares : board[sq] # PieceNone}}

hash_position(p) ==
    LET h1 == HashPieces(p.board_)
        h2 == Xor(h1, castling_keys_(p.castling_rights_))
        h3 == IF p.en_passant_square_ # SquareNone
              THEN Xor(h2, en_passant_keys_(file_of(p.en_passant_square_)))
              ELSE h2
    IN  IF p.side_to_move_ = Black THEN Xor(h3, side_to_move_key_) ELSE h3

(***************************************************************************)
(* position.cpp.  A Position is a record of the fields of the class.       *)
(***************************************************************************)
EmptyPieces == [c \in Colors |-> [pt \in PieceTypes |-> {}]]
EmptyBoard == [sq \in Squares |-> PieceNone]

set_bit(pcs, color, type, sq) == [pcs EXCEPT ![color][type] = @ \cup {sq}]
clear_bit_Kept(pcs, color, type, sq) == pcs
clear_bit(pcs, color, type, sq) == [pcs EXCEPT ![color][type] = @ \ {sq}]

\* castling_rights_ & (1 << bit)
HasRight(rights, bit) == (rights \div (2 ^ bit)) % 2 = 1
\* castling_rights_ &= ~(1 << bit)
ClearRight(rights, bit) == IF HasRight(rights, bit) THEN rights - 2 ^ bit ELSE rights
\* castling_rights_ |= (1 << bit)
AddRight(rights, bit) == IF HasRight(rights, bit) THEN rights ELSE rights + 2 ^ bit

update_bitboards(p) ==
    LET byColor == [c \in Colors |-> UNION {p.pieces_[c][pt] : pt \in PieceTypes}]
    IN  [p EXCEPT !.occupied_by_color_ = byColor,
                  !.occupied_ = byColor[White] \cup byColor[Black]]

piece_on(p, square) == p.board_[square]

king_square(p, color) == get_lsb_index(p.pieces_[color][King])

\* the rook's source and destination of a castle to `to`
CastleRookFrom(to) ==
    IF to = G1 THEN H1 ELSE IF to = C1 THEN A1 ELSE IF to = G8 THEN H8 ELSE A8
CastleRookTo(to) ==
    IF to = G1 THEN F1 ELSE IF to = C1 THEN D1 ELSE IF to = G8 THEN F8 ELSE D8

\* hash ^= key for each key of the sequence in turn
RECURSIVE XorAll(_, _)
XorAll(hash, keys) ==
    IF keys = << >> THEN hash ELSE XorAll(Xor(hash, Head(keys)), Tail(keys))

\* the keys the switch over move.move_type of update_hash_make_move XORs in
UpdateHashMoveKeys(p, move, moving_piece) ==
    LET to_key(piece) == piece_keys_(move.to_square, piece)
        captured == IF move.captured_piece # PieceNone
                    THEN << to_key(move.captured_piece) >> ELSE << >>
        rook == make_piece(color_of(moving_piece), Rook)
        captured_square == IF p.side_to_move_ = White
                           THEN move.to_square - 8 ELSE move.to_square + 8
        captured_pawn == make_piece(opposite_color(p.side_to_move_), Pawn)
    IN  CASE move.move_type = "Normal" -> << to_key(moving_piece) >>
          [] move.move_type = "Capture" -> captured \o << to_key(moving_piece) >>
          [] move.move_type = "Castle" ->
                << to_key(moving_piece),
                   piece_keys_(CastleRookFrom(move.to_square), rook),
                   piece_keys_(CastleRookTo(move.to_square), rook) >>
          [] move.move_type = "EnPassant" ->
                << to_key(moving_piece), piece_keys_(captured_square, captured_pawn) >>
          [] move.move_type = "Promotion" -> << to_key(move.promotion_piece) >> \o captured
          [] OTHER -> << >>

\* ZobristHash::update_hash_make_move on the position before the move
update_hash_make_move(current_hash, p, move) ==
    LET moving_piece == piece_on(p, move.from_square)
        h1 == Xor(current_hash, side_to_move_key_)
        h2 == Xor(h1, piece_keys_(move.from_square, moving_piece))
        h3 == XorAll(h2, UpdateHashMoveKeys(p, move, moving_piece))
        h4 == Xor(h3, castling_keys_(p.castling_rights_))
    IN  IF p.en_passant_square_ # SquareNone
        THEN Xor(h4, en_passant_keys_(file_of(p.en_passant_square_)))
        ELSE h4

\* the switch over move.move_type of make_move: pieces, board, clock, captured piece
MakeMovePieces(p, move) ==
    LET moving_piece == piece_on(p, move.from_square)
        captured_piece == piece_on(p, move.to_square)
        color == color_of(moving_piece)
        type == type_of(moving_piece)
        pcs0 == clear_bit(p.pieces_, color, type, move.from_square)
        brd0 == [p.board_ EXCEPT ![move.from_square] = PieceNone]
        uncaptured == IF captured_piece # PieceNone
                      THEN clear_bit(pcs0, color_of(captured_piece),
                                     type_of(captured_piece), move.to_square)
                      ELSE pcs0
    IN  CASE move.move_type \in {"Normal", "Capture"} ->
               [pcs |-> set_bit(uncaptured, color, type, move.to_square),
                brd |-> [brd0 EXCEPT ![move.to_square] = moving_piece],
                clock |-> IF captured_piece # PieceNone THEN 0
                          ELSE IF type # Pawn THEN p.halfmove_clock_ + 1 ELSE 0,
                captured |-> captured_piece]
          [] move.move_type = "Castle" ->
               LET rook_from == CastleRookFrom(move.to_square)
                   rook_to == CastleRookTo(move.to_square)
                   brd1 == [brd0 EXCEPT ![move.to_square] = moving_piece]
                   rook == brd1[rook_from]
               IN  [pcs |-> set_bit(clear_bit(set_bit(pcs0, color, King, move.to_square),
                                              color, Rook, rook_from),
                                    color, Rook, rook_to),
                    brd |-> [brd1 EXCEPT ![rook_from] = PieceNone, ![rook_to] = rook],
                    clock |-> p.halfmove_clock_ + 1,
                    captured |-> captured_piece]
          [] move.move_type = "EnPassant" ->
               LET captured_pawn_sq == IF color = White THEN move.to_square - 8
                                       ELSE move.to_square + 8
                   enemy_color == opposite_color(color)
               IN  [pcs |-> clear_bit(set_bit(pcs0, color, type, move.to_square),
                                      enemy_color, Pawn, captured_pawn_sq),
                    brd |-> [brd0 EXCEPT ![move.to_square] = moving_piece,
                                         ![captured_pawn_sq] = PieceNone],
                    clock |-> 0,
                    captured |-> make_piece(enemy_color, Pawn)]
          [] move.move_type = "Promotion" ->
               [pcs |-> set_bit(uncaptured, color, type_of(move.promotion_piece),
                                move.to_square),
                brd |-> [brd0 EXCEPT ![move.to_square] = move.promotion_piece],
                clock |-> 0,
                captured |-> captured_piece]

\* the castling rights after a move of a piece of `color` and `type`
ClearRightIf(rights, condition, bit) ==
    IF condition THEN ClearRight(rights, bit) ELSE rights

\* the rights after the tests of the squares a rook leaves or is captured on
RookSquareRights(rights, move) ==
    ClearRightIf(ClearRightIf(ClearRightIf(ClearRightIf(
    ClearRightIf(ClearRightIf(ClearRightIf(ClearRightIf(rights,
        move.from_square = A1, White_OOO),
        move.from_square = H1, White_OO),
        move.from_square = A8, Black_OOO),
        move.from_square = H8, Black_OO),
        move.to_square = A1, White_OOO),
        move.to_square = H1, White_OO),
        move.to_square = A8, Black_OOO),
        move.to_square = H8, Black_OO)

MakeMoveCastlingRights_Kept(rights, move, color, type) == rights
MakeMoveCastlingRights(rights, move, color, type) ==
    RookSquareRights(
        ClearRightIf(ClearRightIf(ClearRightIf(ClearRightIf(rights,
            type = King /\ color = White, White_OO),
            type = King /\ color = White, White_OOO),
            type = King /\ color # White, Black_OO),
            type = King /\ color # White, Black_OOO),
        move)

\* the en passant square after a move of a piece of `color` and `type`
MakeMoveEnPassant_Cleared(move, color, type) == SquareNone
MakeMoveEnPassant(move, color, type) ==
    IF type = Pawn /\ Abs(rank_of(move.to_square) - rank_of(move.from_square)) = 2
    THEN IF color = White THEN move.to_square - 8 ELSE move.to_square + 8
    ELSE SquareNone

\* the last statement of make_move: the hash key recomputed from the position
UpdateHashKey_Stale(q) == q
UpdateHashKey(q) == [q EXCEPT !.hash_key_ = hash_position(q)]

\* hash_key_ = hash_position(*this) at the end of load_fen and of undo_move
RehashPosition(q) == [q EXCEPT !.hash_key_ = hash_position(q)]

\* fullmove_number_ after the side to move has become `side`
MakeMoveFullmove_Always(number, side) == number + 1
MakeMoveFullmove(number, side) == IF side = White THEN number + 1 ELSE number

\* make_move with the piece that moves and the boards after the move
MakeMoveOf(p, move, color, type, m) ==
    UpdateHashKey(update_bitboards(
        [p EXCEPT !.pieces_ = m.pcs,
                  !.board_ = m.brd,
                  !.halfmove_clock_ = m.clock,
                  !.castling_rights_ =
                      MakeMoveCastlingRights(p.castling_rights_, move, color, type),
                  !.en_passant_square_ = MakeMoveEnPassant(move, color, type),
                  !.side_to_move_ = opposite_color(p.side_to_move_),
                  !.fullmove_number_ = MakeMoveFullmove(@, opposite_color(p.side_to_move_)),
                  !.move_history_ =
                      Append(@, [move EXCEPT
                                    !.previous_castling_rights = p.castling_rights_,
                                    !.previous_en_passant_square = p.en_passant_square_,
                                    !.previous_halfmove_clock = p.halfmove_clock_,
                                    !.captured_piece = m.captured])]))

make_move(p, move) ==
    MakeMoveOf(p, move, color_of(piece_on(p, move.from_square)),
               type_of(piece_on(p, move.from_square)), MakeMovePieces(p, move))

\* undo_move puts the captured piece back on its bitboard
RestoreCaptured_Dropped(pcs, move) == pcs
RestoreCaptured(pcs, move) ==
    IF move.captured_piece # PieceNone
    THEN set_bit(pcs, color_of(move.captured_piece), type_of(move.captured_piece),
                 move.to_square)
    ELSE pcs

\* the switch over move.move_type of undo_move: pieces and board
UndoMovePieces(p, move, moving_piece) ==
    LET color == color_of(moving_piece)
        type == type_of(moving_piece)
        Recapture(pcs) == RestoreCaptured(pcs, move)
        Replaced(brd) == IF move.captured_piece # PieceNone
                         THEN [brd EXCEPT ![move.to_square] = move.captured_piece]
                         ELSE brd
    IN  CASE move.move_type \in {"Normal", "Capture"} ->
               [pcs |-> Recapture(set_bit(clear_bit(p.pieces_, color, type, move.to_square),
                                          color, type, move.from_square)),
                brd |-> Replaced([p.board_ EXCEPT ![move.to_square] = PieceNone,
                                                  ![move.from_square] = moving_piece])]
          [] move.move_type = "Castle" ->
               \* the rook goes back from where the castle put it
               LET rook_from == CastleRookTo(move.to_square)
                   rook_to == CastleRookFrom(move.to_square)
                   brd1 == [p.board_ EXCEPT ![move.to_square] = PieceNone,
                                            ![move.from_square] = moving_piece]
                   rook == brd1[rook_from]
               IN  [pcs |-> set_bit(clear_bit(set_bit(clear_bit(p.pieces_, color, King,
                                                                move.to_square),
                                                      color, King, move.from_square),
                                              color, Rook, rook_from),
                                    color, Rook, rook_to),
                    brd |-> [brd1 EXCEPT ![rook_from] = PieceNone, ![rook_to] = rook]]
          [] move.move_type = "EnPassant" ->
               LET captured_pawn_sq == IF color = White THEN move.to_square - 8
                                       ELSE move.to_square + 8
                   enemy_color == opposite_color(color)
               IN  [pcs |-> set_bit(set_bit(clear_bit(p.pieces_, color, Pawn, move.to_square),
                                            color, Pawn, move.from_square),
                                    enemy_color, Pawn, captured_pawn_sq),
                    brd |-> [p.board_ EXCEPT ![move.to_square] = PieceNone,
                                             ![move.from_square] = moving_piece,
                                             ![captured_pawn_sq] = move.captured_piece]]
          [] move.move_type = "Promotion" ->
               [pcs |-> Recapture(set_bit(clear_bit(p.pieces_, color,
                                                    type_of(move.promotion_piece),
                                                    move.to_square),
                                          color, Pawn, move.from_square)),
                brd |-> Replaced([p.board_ EXCEPT ![move.to_square] = PieceNone,
                                                  ![move.from_square] =
                                                      make_piece(color, Pawn)])]

\* undo_move of `move`, the last move of the history, made by `moving_piece`
UndoMoveOf(p, move, side, m) ==
    RehashPosition(update_bitboards(
        [p EXCEPT !.side_to_move_ = side,
                  !.fullmove_number_ = IF side = Black THEN @ - 1 ELSE @,
                  !.castling_rights_ = move.previous_castling_rights,
                  !.en_passant_square_ = move.previous_en_passant_square,
                  !.halfmove_clock_ = move.previous_halfmove_clock,
                  !.pieces_ = m.pcs,
                  !.board_ = m.brd,
                  !.move_history_ = SubSeq(@, 1, Len(@) - 1)]))

UndoLastMove(p, move, side) ==
    UndoMoveOf(p, move, side,
               UndoMovePieces(p, move, IF move.move_type = "Promotion"
                                       THEN make_piece(side, Pawn)
                                       ELSE piece_on(p, move.to_square)))

\* undo_move that leaves the move made
undo_move_Kept(p) == p

undo_move(p) ==
    IF p.move_history_ = <<>> THEN p
    ELSE UndoLastMove(p, p.move_history_[Len(p.move_history_)],
                      opposite_color(p.side_to_move_))

\* undo_moves that undoes one move whatever the count
undo_moves_One(p, count) == undo_move(p)

\* the loop of undo_moves from its round i on
RECURSIVE UndoMovesFrom(_, _, _)
UndoMovesFrom(p, i, count) ==
    IF i < count /\ p.move_history_ # <<>>
    THEN UndoMovesFrom(undo_move(p), i + 1, count)
    ELSE p

undo_moves(p, count) == UndoMovesFrom(p, 0, count)

(***************************************************************************)
(* movegen.cpp                                                             *)
(***************************************************************************)
is_square_attacked(p, square, by_color) ==
    \/ /\ by_color = White
       /\ rank_of(square) > 0
       /\ \/ file_of(square) > 0 /\ piece_on(p, square - 9) = make_piece(White, Pawn)
          \/ file_of(square) < 7 /\ piece_on(p, square - 7) = make_piece(White, Pawn)
    \/ /\ by_color # White
       /\ rank_of(square) < 7
       /\ \/ file_of(square) > 0 /\ piece_on(p, square + 7) = make_piece(Black, Pawn)
          \/ file_of(square) < 7 /\ piece_on(p, square + 9) = make_piece(Black, Pawn)
    \/ knight_attacks(square) \cap p.pieces_[by_color][Knight] # {}
    \/ king_attacks(square) \cap p.pieces_[by_color][King] # {}
    \/ bishop_attacks(square, p.occupied_)
         \cap (p.pieces_[by_color][Bishop] \cup p.pieces_[by_color][Queen]) # {}
    \/ rook_attacks(square, p.occupied_)
         \cap (p.pieces_[by_color][Rook] \cup p.pieces_[by_color][Queen]) # {}

is_in_check(p) ==
    is_square_attacked(p, king_square(p, p.side_to_move_), opposite_color(p.side_to_move_))

RECURSIVE ConcatAll(_)
ConcatAll(ss) == IF ss = <<>> THEN <<>> ELSE Head(ss) \o ConcatAll(Tail(ss))

\* the inner loop of the piece generators: one move per attacked square, in pop_lsb order
MovesTo(p, from, attacks) ==
    LET tos == PopLsbSeq(attacks)
    IN  [i \in 1 .. Len(tos) |->
           Move(from, tos[i],
                IF piece_on(p, tos[i]) # PieceNone THEN "Capture" ELSE "Normal",
                PieceNone)]

generate_knight_moves(p, color) ==
    LET froms == PopLsbSeq(p.pieces_[color][Knight])
    IN  ConcatAll([i \in 1 .. Len(froms) |->
           MovesTo(p, froms[i], knight_attacks(froms[i]) \ p.occupied_by_color_[color])])

generate_bishop_moves(p, color) ==
    LET froms == PopLsbSeq(p.pieces_[color][Bishop])
    IN  ConcatAll([i \in 1 .. Len(froms) |->
           MovesTo(p, froms[i],
                   bishop_attacks(froms[i], p.occupied_) \ p.occupied_by_color_[color])])

generate_rook_moves(p, color) ==
    LET froms == PopLsbSeq(p.pieces_[color][Rook])
    IN  ConcatAll([i \in 1 .. Len(froms) |->
           MovesTo(p, froms[i],
                   rook_attacks(froms[i], p.occupied_) \ p.occupied_by_color_[color])])

generate_queen_moves(p, color) ==
    LET froms == PopLsbSeq(p.pieces_[color][Queen])
    IN  ConcatAll([i \in 1 .. Len(froms) |->
           MovesTo(p, froms[i],
                   queen_attacks(froms[i], p.occupied_) \ p.occupied_by_color_[color])])

\* generate_king_moves without the moves of the king
generate_king_moves_None(p, color) == << >>

generate_king_moves(p, color) ==
    LET kings == p.pieces_[color][King]
        from == get_lsb_index(kings)
    IN  IF kings # {}
        THEN MovesTo(p, from, king_attacks(from) \ p.occupied_by_color_[color])
        ELSE <<>>

\* the four promotion moves of a pawn, in the order the generator pushes them
PromotionMoves(from, to, color) ==
    << Move(from, to, "Promotion", make_piece(color, Queen)),
       Move(from, to, "Promotion", make_piece(color, Rook)),
       Move(from, to, "Promotion", make_piece(color, Bishop)),
       Move(from, to, "Promotion", make_piece(color, Knight)) >>

\* the body of the loop of generate_pawn_moves for the pawn on `from`
PawnMovesFrom(p, color, from) ==
    LET push_offset == IF color = White THEN North ELSE South
        start_rank == IF color = White THEN 1 ELSE 6
        promo_rank == IF color = White THEN 7 ELSE 0
        to == from + push_offset
        double_to == from + 2 * push_offset
        pushes ==
            IF to >= A1 /\ to <= H8 /\ to \notin p.occupied_
            THEN IF rank_of(to) = promo_rank
                 THEN PromotionMoves(from, to, color)
                 ELSE << Move(from, to, "Normal", PieceNone) >>
                      \o (IF rank_of(from) = start_rank /\ double_to \notin p.occupied_
                          THEN << Move(from, double_to, "Normal", PieceNone) >>
                          ELSE <<>>)
            ELSE <<>>
        caps == PopLsbSeq(pawn_attacks(from, color)
                            \cap p.occupied_by_color_[opposite_color(color)])
        captures ==
            ConcatAll([i \in 1 .. Len(caps) |->
                IF rank_of(caps[i]) = promo_rank
                THEN PromotionMoves(from, caps[i], color)
                ELSE << Move(from, caps[i], "Capture", PieceNone) >>])
        en_passant ==
            IF p.en_passant_square_ # SquareNone
               /\ p.en_passant_square_ \in pawn_attacks(from, color)
            THEN << Move(from, p.en_passant_square_, "EnPassant", PieceNone) >>
            ELSE <<>>
    IN  pushes \o captures \o en_passant

generate_pawn_moves(p, color) ==
    LET froms == PopLsbSeq(p.pieces_[color][Pawn])
    IN  ConcatAll([i \in 1 .. Len(froms) |-> PawnMovesFrom(p, color, froms[i])])

\* one side's castle: the right, the empty squares, the unattacked squares, the rook
CastleMove_Through(p, color, right, empty, crossed, rook_sq, king_from, king_to) ==
    IF /\ HasRight(p.castling_rights_, right)
       /\ \A sq \in crossed : ~is_square_attacked(p, sq, opposite_color(color))
       /\ piece_on(p, rook_sq) = make_piece(color, Rook)
    THEN << Move(king_from, king_to, "Castle", PieceNone) >>
    ELSE <<>>
CastleMove(p, color, right, empty, crossed, rook_sq, king_from, king_to) ==
    IF /\ HasRight(p.castling_rights_, right)
       /\ \A sq \in empty : sq \notin p.occupied_
       /\ \A sq \in crossed : ~is_square_attacked(p, sq, opposite_color(color))
       /\ piece_on(p, rook_sq) = make_piece(color, Rook)
    THEN << Move(king_from, king_to, "Castle", PieceNone) >>
    ELSE <<>>

generate_castling_moves(p, color) ==
    IF is_in_check(p) THEN <<>>
    ELSE IF \/ color = White /\ king_square(p, color) # E1
            \/ color = Black /\ king_square(p, color) # E8
    THEN <<>>
    ELSE CastleMove(p, color,
                    IF color = White THEN White_OO ELSE Black_OO,
                    IF color = White THEN {F1, G1} ELSE {F8, G8},
                    IF color = White THEN {F1, G1} ELSE {F8, G8},
                    IF color = White THEN H1 ELSE H8,
                    IF color = White THEN E1 ELSE E8,
                    IF color = White THEN G1 ELSE G8)
         \o CastleMove(p, color,
                       IF color = White THEN White_OOO ELSE Black_OOO,
                       IF color = White THEN {D1, C1, B1} ELSE {D8, C8, B8},
                       IF color = White THEN {D1, C1} ELSE {D8, C8},
                       IF color = White THEN A1 ELSE A8,
                       IF color = White THEN E1 ELSE E8,
                       IF color = White THEN C1 ELSE C8)

generate_all_moves(p, color) ==
    generate_pawn_moves(p, color) \o generate_knight_moves(p, color)
    \o generate_bishop_moves(p, color) \o generate_rook_moves(p, color)
    \o generate_queen_moves(p, color) \o generate_king_moves(p, color)
    \o generate_castling_moves(p, color)

\* the special case of generate_legal_moves: no piece but the kings
OnlyKings_Never(p) == FALSE
OnlyKings(p) == \A c \in Colors : \A pt \in PieceTypes : pt # King => p.pieces_[c][pt] = {}

\* the filter of generate_legal_moves: the king is not attacked after the move
KingSafeIn(test_pos, color) ==
    ~is_square_attacked(test_pos, king_square(test_pos, color), opposite_color(color))

LeavesKingSafe(p, move) == KingSafeIn(make_move(p, move), p.side_to_move_)

generate_legal_moves(p) ==
    IF OnlyKings(p) THEN <<>>
    ELSE SelectSeq(generate_all_moves(p, p.side_to_move_),
                   LAMBDA move : LeavesKingSafe(p, move))

(***************************************************************************)
(* FEN strings.  A string is a sequence of one-character strings; a FEN is *)
(* the sequence of its whitespace-separated fields.                        *)
(***************************************************************************)
FileChars == << "a", "b", "c", "d", "e", "f", "g", "h" >>
RankChars == << "1", "2", "3", "4", "5", "6", "7", "8" >>
PieceChars == << "P", "N", "B", "R", "Q", "K" >>
LowerPieceChars == << "p", "n", "b", "r", "q", "k" >>

InSeq(ch, chars) == \E i \in 1 .. Len(chars) : chars[i] = ch

\* the elements of a sequence
Range(seq) == {seq[i] : i \in 1 .. Len(seq)}
IndexOf(ch, chars) == CHOOSE i \in 1 .. Len(chars) : chars[i] = ch

\* std::isupper and std::tolower on the characters a field can hold
IsUpper(ch) == InSeq(ch, PieceChars) \/ ch = "X"
ToLower(ch) ==
    IF InSeq(ch, PieceChars) THEN LowerPieceChars[IndexOf(ch, PieceChars)]
    ELSE IF ch = "X" THEN "x"
    ELSE IF ch = "D" THEN "d"
    ELSE ch

square_to_string(square) ==
    IF square = SquareNone \/ square = SquareNB THEN << "N", "o", "n", "e" >>
    ELSE << FileChars[(square % FileNB) + 1], RankChars[(square \div FileNB) + 1] >>

string_to_square(s) ==
    IF Len(s) < 2 THEN SquareNB
    ELSE LET file == ToLower(s[1])
             rank == s[2]
         IN  IF ~InSeq(file, FileChars) \/ ~InSeq(rank, RankChars) THEN SquareNone
             ELSE (IndexOf(rank, RankChars) - 1) * FileNB + (IndexOf(file, FileChars) - 1)

piece_to_string(piece) ==
    IF color_of(piece) = White THEN PieceChars[type_of(piece) + 1]
    ELSE ToLower(PieceChars[type_of(piece) + 1])

\* the loop of load_fen over the characters of one rank of board_part, from
\* character i on: the squares and pieces it places, in order, closed by a
\* record that is not ok at the default: label of the switch
RECURSIVE RankPlacements(_, _, _, _)
RankPlacements(chars, i, rank, file) ==
    IF i > Len(chars) THEN << >>
    ELSE IF InSeq(chars[i], RankChars)
    THEN RankPlacements(chars, i + 1, rank, file + IndexOf(chars[i], RankChars))
    ELSE IF ~InSeq(ToLower(chars[i]), LowerPieceChars)
    THEN << [ok |-> FALSE, sq |-> SquareNone, color |-> ColorNone, type |-> PieceTypeNB] >>
    ELSE << [ok |-> TRUE, sq |-> make_square(file, rank),
             color |-> IF IsUpper(chars[i]) THEN White ELSE Black,
             type |-> IndexOf(ToLower(chars[i]), LowerPieceChars) - 1] >>
         \o RankPlacements(chars, i + 1, rank, file + 1)

\* the mailbox and the piece bitboards after the placements `placed`
PlaceOnBoard(placed, brd) ==
    [square \in Squares |->
        LET on == {k \in 1 .. Len(placed) : placed[k].sq = square}
        IN  IF on = {} THEN brd[square]
            ELSE LET last == CHOOSE k \in on : \A j \in on : j <= k
                 IN  make_piece(placed[last].color, placed[last].type)]

PlaceOnBitboards(placed, pcs) ==
    [c \in Colors |-> [pt \in PieceTypes |->
        pcs[c][pt] \cup {placed[k].sq : k \in {j \in 1 .. Len(placed) :
                                                placed[j].color = c /\ placed[j].type = pt}}]]

\* the placements of the ranks from the k-th one of board_part on, which
\* `slashes` separate
RECURSIVE BoardPlacements(_, _, _)
BoardPlacements(board_part, slashes, k) ==
    LET from == IF k = 1 THEN 1 ELSE slashes[k - 1] + 1
        to == IF k <= Len(slashes) THEN slashes[k] - 1 ELSE Len(board_part)
        here == RankPlacements(SubSeq(board_part, from, to), 1, 8 - k, 0)
    IN  IF k > Len(slashes) THEN here
        ELSE here \o BoardPlacements(board_part, slashes, k + 1)

\* the loop of load_fen over board_part, on the pieces and the mailbox that
\* load_fen has cleared; ok is FALSE at the default: label of the switch, with
\* the pieces placed so far
\* the placements before the first character the loop rejects
PlacedBefore(all, bad) ==
    IF bad = {} THEN all
    ELSE SubSeq(all, 1, (CHOOSE k \in bad : \A j \in bad : k <= j) - 1)

PlaceAll(ok, placed, pcs, brd) ==
    [ok |-> ok, pcs |-> PlaceOnBitboards(placed, pcs), brd |-> PlaceOnBoard(placed, brd)]

ParsePlacements(all, bad, pcs, brd) == PlaceAll(bad = {}, PlacedBefore(all, bad), pcs, brd)

ParseRanks(all, pcs, brd) ==
    ParsePlacements(all, {k \in 1 .. Len(all) : ~all[k].ok}, pcs, brd)

ParseBoard(board_part, pcs, brd) ==
    ParseRanks(BoardPlacements(board_part,
                               SelectSeq([i \in 1 .. Len(board_part) |-> i],
                                         LAMBDA i : board_part[i] = "/"),
                               1),
               pcs, brd)

\* the loop of load_fen over the castling field
RECURSIVE ParseCastling(_, _, _)
ParseCastling(castling, i, rights) ==
    IF i > Len(castling) THEN rights
    ELSE ParseCastling(castling, i + 1,
            IF castling[i] = "K" THEN AddRight(rights, White_OO)
            ELSE IF castling[i] = "Q" THEN AddRight(rights, White_OOO)
            ELSE IF castling[i] = "k" THEN AddRight(rights, Black_OO)
            ELSE IF castling[i] = "q" THEN AddRight(rights, Black_OOO)
            ELSE rights)

DigitChars == << "0", "1", "2", "3", "4", "5", "6", "7", "8", "9" >>

\* the number of leading decimal digits of a field
RECURSIVE DigitPrefix(_, _)
DigitPrefix(field, i) ==
    IF i > Len(field) \/ ~InSeq(field[i], DigitChars) THEN i - 1
    ELSE DigitPrefix(field, i + 1)

\* the value of the first n characters of a field, all decimal digits
RECURSIVE DigitsValue(_, _)
DigitsValue(field, n) ==
    IF n = 0 THEN 0
    ELSE 10 * DigitsValue(field, n - 1) + (IndexOf(field[n], DigitChars) - 1)

\* operator<< of an int
RECURSIVE IntToString(_)
IntToString(n) ==
    IF n < 0 THEN << "-" >> \o IntToString(-n)
    ELSE IF n < 10 THEN << DigitChars[n + 1] >>
    ELSE IntToString(n \div 10) \o << DigitChars[(n % 10) + 1] >>

\* the two clocks after the extraction
\*   ss >> ... >> halfmove_clock_ >> fullmove_number_
\* a field that is missing leaves its target alone, a field that starts with no
\* digit stores 0 in it, and the stream reads nothing after its first failure;
\* an int is read up to the first character that is no digit, where the next
\* extraction resumes
ExtractClocks(p, fen) ==
    IF Len(fen) < 5
    THEN [ok |-> FALSE, half |-> p.halfmove_clock_, full |-> p.fullmove_number_]
    ELSE LET n5 == DigitPrefix(fen[5], 1)
         IN  IF n5 = 0
             THEN [ok |-> FALSE, half |-> 0, full |-> p.fullmove_number_]
             ELSE IF n5 < Len(fen[5])
             THEN [ok |-> FALSE, half |-> DigitsValue(fen[5], n5), full |-> 0]
             ELSE IF Len(fen) < 6
             THEN [ok |-> FALSE, half |-> DigitsValue(fen[5], n5),
                   full |-> p.fullmove_number_]
             ELSE LET n6 == DigitPrefix(fen[6], 1)
                  IN  IF n6 = 0
                      THEN [ok |-> FALSE, half |-> DigitsValue(fen[5], n5), full |-> 0]
                      ELSE [ok |-> TRUE, half |-> DigitsValue(fen[5], n5),
                            full |-> DigitsValue(fen[6], n6)]

\* load_fen: the value returned and the Position it leaves
\* load_fen from the board field on, `parsed` being the outcome of its loop
LoadFenBoard(p1, fen, parsed) ==
    IF ~parsed.ok
    THEN [ok |-> FALSE,
          pos |-> [p1 EXCEPT !.pieces_ = parsed.pcs,
                             !.board_ = parsed.brd,
                             !.move_history_ = <<>>]]
    ELSE [ok |-> TRUE,
          pos |-> RehashPosition(update_bitboards(
                      [p1 EXCEPT !.pieces_ = parsed.pcs,
                                 !.board_ = parsed.brd,
                                 !.move_history_ = <<>>,
                                 !.side_to_move_ =
                                     IF fen[2] = << "w" >> THEN White ELSE Black,
                                 !.castling_rights_ = ParseCastling(fen[3], 1, 0),
                                 !.en_passant_square_ =
                                     IF fen[4] = << "-" >> THEN SquareNone
                                     ELSE string_to_square(fen[4])]))]

\* load_fen once the stream has read, or failed to read, the two clocks
LoadFenClocks(p1, fen, ok) ==
    IF ~ok THEN [ok |-> FALSE, pos |-> p1]
    ELSE LoadFenBoard(p1, fen, ParseBoard(fen[1], EmptyPieces, EmptyBoard))

LoadFenFields(p, fen, clocks) ==
    LoadFenClocks([p EXCEPT !.halfmove_clock_ = clocks.half,
                            !.fullmove_number_ = clocks.full],
                  fen, clocks.ok)

\* load_fen: the value returned and the Position it leaves
load_fen(p, fen) == LoadFenFields(p, fen, ExtractClocks(p, fen))

\* one rank of the board field of to_fen, from `file` on
RECURSIVE FenRank(_, _, _, _)
FenRank(p, rank, file, empty_count) ==
    IF file = 8 THEN (IF empty_count > 0 THEN << RankChars[empty_count] >> ELSE <<>>)
    ELSE LET piece == piece_on(p, make_square(file, rank))
         IN  IF piece = PieceNone THEN FenRank(p, rank, file + 1, empty_count + 1)
             ELSE (IF empty_count > 0 THEN << RankChars[empty_count] >> ELSE <<>>)
                  \o << piece_to_string(piece) >> \o FenRank(p, rank, file + 1, 0)

\* the board field of to_fen: the ranks from the eighth to the first
FenBoard(p) ==
    FenRank(p, 7, 0, 0) \o << "/" >> \o FenRank(p, 6, 0, 0) \o << "/" >>
    \o FenRank(p, 5, 0, 0) \o << "/" >> \o FenRank(p, 4, 0, 0) \o << "/" >>
    \o FenRank(p, 3, 0, 0) \o << "/" >> \o FenRank(p, 2, 0, 0) \o << "/" >>
    \o FenRank(p, 1, 0, 0) \o << "/" >> \o FenRank(p, 0, 0, 0)

to_fen(p) ==
    LET castling == (IF HasRight(p.castling_rights_, White_OO) THEN << "K" >> ELSE <<>>)
                    \o (IF HasRight(p.castling_rights_, White_OOO) THEN << "Q" >> ELSE <<>>)
                    \o (IF HasRight(p.castling_rights_, Black_OO) THEN << "k" >> ELSE <<>>)
                    \o (IF HasRight(p.castling_rights_, Black_OOO) THEN << "q" >> ELSE <<>>)
    IN  << FenBoard(p),
           IF p.side_to_move_ = White THEN << "w" >> ELSE << "b" >>,
           IF castling = <<>> THEN << "-" >> ELSE castling,
           IF p.en_passant_square_ = SquareNone THEN << "-" >>
           ELSE square_to_string(p.en_passant_square_),
           IntToString(p.halfmove_clock_),
           IntToString(p.fullmove_number_) >>

(***************************************************************************)
(* The FEN strings the position is loaded from.                            *)
(***************************************************************************)
\* the starting position, loaded by the constructor
StartFen ==
    << << "r", "n", "b", "q", "k", "b", "n", "r", "/", "p", "p", "p", "p", "p", "p", "p", "p", "/", "8", "/", "8", "/", "8", "/", "8", "/", "P", "P", "P", "P", "P", "P", "P", "P", "/", "R", "N", "B", "Q", "K", "B", "N", "R" >>,
       << "w" >>,
       << "K", "Q", "k", "q" >>,
       << "-" >>,
       << "0" >>,
       << "1" >> >>

\* white may castle on both sides
CastleFenWhite ==
    << << "4", "k", "3", "/", "8", "/", "8", "/", "8", "/", "8", "/", "8", "/", "P", "6", "P", "/", "R", "3", "K", "2", "R" >>,
       << "w" >>,
       << "K", "Q" >>,
       << "-" >>,
       << "0" >>,
       << "1" >> >>

\* black may castle queenside; g8 is attacked
CastleFenBlack ==
    << << "r", "3", "k", "2", "r", "/", "p", "6", "p", "/", "8", "/", "8", "/", "8", "/", "8", "/", "8", "/", "4", "K", "1", "R", "1" >>,
       << "b" >>,
       << "k", "q" >>,
       << "-" >>,
       << "0" >>,
       << "1" >> >>

\* white's queenside castle is blocked on b1 only
CastleFenBlocked ==
    << << "4", "k", "3", "/", "8", "/", "8", "/", "8", "/", "8", "/", "8", "/", "8", "/", "R", "N", "2", "K", "3" >>,
       << "w" >>,
       << "Q" >>,
       << "-" >>,
       << "0" >>,
       << "1" >> >>

\* white may capture en passant on d6
EnPassantFen ==
    << << "4", "k", "3", "/", "8", "/", "8", "/", "3", "p", "P", "3", "/", "8", "/", "8", "/", "8", "/", "4", "K", "3" >>,
       << "w" >>,
       << "-" >>,
       << "d", "6" >>,
       << "0" >>,
       << "2" >> >>

\* black's double push d7d5 allows en passant
DoublePushFen ==
    << << "4", "k", "3", "/", "3", "p", "4", "/", "8", "/", "4", "P", "3", "/", "8", "/", "8", "/", "8", "/", "4", "K", "3" >>,
       << "b" >>,
       << "-" >>,
       << "-" >>,
       << "3" >>,
       << "1" >> >>

\* capturing en passant would expose the white king on the rank
EnPassantPinFen ==
    << << "8", "/", "8", "/", "8", "/", "K", "2", "p", "P", "2", "r", "/", "8", "/", "8", "/", "8", "/", "4", "k", "3" >>,
       << "w" >>,
       << "-" >>,
       << "d", "6" >>,
       << "0" >>,
       << "2" >> >>

\* a pawn may promote by a push or by a capture
PromotionFen ==
    << << "1", "n", "2", "k", "3", "/", "P", "7", "/", "8", "/", "8", "/", "8", "/", "8", "/", "8", "/", "4", "K", "3" >>,
       << "w" >>,
       << "-" >>,
       << "-" >>,
       << "0" >>,
       << "1" >> >>

\* the white knight is pinned to its king
PinFen ==
    << << "8", "/", "8", "/", "8", "/", "r", "3", "N", "2", "K", "/", "8", "/", "8", "/", "8", "/", "4", "k", "3" >>,
       << "w" >>,
       << "-" >>,
       << "-" >>,
       << "0" >>,
       << "1" >> >>

\* only the two kings
TwoKingsFen ==
    << << "4", "k", "3", "/", "8", "/", "8", "/", "8", "/", "8", "/", "8", "/", "8", "/", "4", "K", "3" >>,
       << "w" >>,
       << "-" >>,
       << "-" >>,
       << "0" >>,
       << "1" >> >>

\* three fields
ThreeFieldsFen ==
    << << "4", "k", "3", "/", "8", "/", "8", "/", "8", "/", "8", "/", "8", "/", "8", "/", "4", "K", "3" >>,
       << "b" >>,
       << "k", "q" >> >>

\* four fields: no clock
FourFieldsFen ==
    << << "4", "k", "3", "/", "8", "/", "8", "/", "8", "/", "8", "/", "8", "/", "8", "/", "4", "K", "3" >>,
       << "b" >>,
       << "k", "q" >>,
       << "e", "3" >> >>

\* five fields: no fullmove number
FiveFieldsFen ==
    << << "4", "k", "3", "/", "8", "/", "8", "/", "8", "/", "8", "/", "8", "/", "8", "/", "4", "K", "3" >>,
       << "b" >>,
       << "k", "q" >>,
       << "e", "3" >>,
       << "7" >> >>

\* six fields, a halfmove clock that is no number
BadHalfmoveFen ==
    << << "4", "k", "3", "/", "8", "/", "8", "/", "8", "/", "8", "/", "8", "/", "8", "/", "4", "K", "3" >>,
       << "b" >>,
       << "k", "q" >>,
       << "e", "3" >>,
       << "x" >>,
       << "9" >> >>

\* six fields, a fullmove number that is no number
BadFullmoveFen ==
    << << "4", "k", "3", "/", "8", "/", "8", "/", "8", "/", "8", "/", "8", "/", "8", "/", "4", "K", "3" >>,
       << "b" >>,
       << "k", "q" >>,
       << "e", "3" >>,
       << "7" >>,
       << "x" >> >>

\* six fields, an unknown piece letter in the placement
BadPieceFen ==
    << << "4", "k", "3", "/", "8", "/", "8", "/", "8", "/", "8", "/", "8", "/", "8", "/", "4", "K", "2", "x" >>,
       << "b" >>,
       << "k", "q" >>,
       << "e", "3" >>,
       << "5" >>,
       << "9" >> >>

ValidFens ==
    { StartFen,
      CastleFenWhite,
      CastleFenBlack,
      CastleFenBlocked,
      EnPassantFen,
      DoublePushFen,
      EnPassantPinFen,
      PromotionFen,
      PinFen,
      TwoKingsFen }

InvalidFens ==
    { ThreeFieldsFen,
      FourFieldsFen,
      FiveFieldsFen,
      BadHalfmoveFen,
      BadFullmoveFen,
      BadPieceFen }

(***************************************************************************)
(* constants.h and transposition_table.h/.cpp.                             *)
(***************************************************************************)
MAX_PLY == 64
INFINITY_SCORE == 1000000
MATE_SCORE == 100000

\* enum class BoundType
BOUND_NONE == 0
EXACT == 1
LOWER_BOUND == 2
UPPER_BOUND == 3

\* static_cast<int16_t>(x)
ToInt16(x) == ((x + 32768) % 65536) - 32768

\* TTEntry::TTEntry()
EmptyEntry ==
    [key |-> {}, score |-> 0, depth |-> -1, bound_type |-> BOUND_NONE, age |-> 0,
     best_move |-> NullMove]

\* TTEntry::is_valid
is_valid(entry) == entry.depth >= 0

\* the entries of the table: table_size_ stands for size_mb MB of entries
TableSize == 2
TableIndices == 0 .. (TableSize - 1)

\* TranspositionTable::clear
ClearedTable == [i \in TableIndices |-> EmptyEntry]

\* the number a hash key stands for: the keys of zobrist.cpp are random
\* 64-bit numbers joined by XOR, here the squares, pieces, rights and files
\* they are drawn for, added up
KeyNumber(k) == 1 + k[2] + k[3]
KeyValue(key) == Cardinality(UNION {{<< k, n >> : n \in 1 .. KeyNumber(k)} : k \in key})

get_index(key) == KeyValue(key) % TableSize

\* should_replace without the test of the age
should_replace_DepthOnly(existing, new_depth, new_age) ==
    IF ~is_valid(existing) THEN TRUE
    ELSE new_depth >= existing.depth

should_replace(existing, new_depth, new_age) ==
    IF ~is_valid(existing) THEN TRUE
    ELSE IF new_age # existing.age THEN TRUE
    ELSE new_depth >= existing.depth

\* the score as store keeps it: mate scores are moved by the ply
StoreScore(score, ply) ==
    IF score > MATE_SCORE - MAX_PLY THEN score + ply
    ELSE IF score < -MATE_SCORE + MAX_PLY THEN score - ply
    ELSE score

\* TranspositionTable::store: the table after the call
store(table, age, key, score, depth, bound, best_move, ply) ==
    LET index == get_index(key)
        entry == table[index]
    IN  IF ~is_valid(entry) \/ should_replace(entry, depth, age)
        THEN [table EXCEPT ![index] =
                 [key |-> key,
                  score |-> ToInt16(StoreScore(score, ply)),
                  depth |-> ToInt16(depth),
                  bound_type |-> bound,
                  age |-> age,
                  best_move |-> best_move]]
        ELSE table

\* TranspositionTable::probe: the value returned and the four reference
\* parameters, which `out` holds before the call
probe(table, key, ply, out) ==
    LET entry == table[get_index(key)]
    IN  IF ~is_valid(entry) \/ entry.key # key
        THEN [out EXCEPT !.found = FALSE]
        ELSE [found |-> TRUE,
              score |-> IF entry.score > MATE_SCORE - MAX_PLY THEN entry.score - ply
                        ELSE IF entry.score < -MATE_SCORE + MAX_PLY
                        THEN entry.score + ply
                        ELSE entry.score,
              depth |-> entry.depth,
              bound |-> entry.bound_type,
              best_move |-> entry.best_move]

\* the reference parameters of probe before a caller has set them
NoProbe ==
    [found |-> FALSE, score |-> 0, depth |-> 0, bound |-> BOUND_NONE,
     best_move |-> NullMove]

\* TranspositionTable::new_search: current_age_++ on a uint8_t
NextAge(age) == (age + 1) % 256

\* current_age_ after `calls` calls of new_search: so many increments of a
\* uint8_t
AgeAfter(age, calls) == (age + calls) % 256

(***************************************************************************)
(* constants.h and evaluator.cpp.  The piece-square tables are indexed by  *)
(* the square number, table[0] being the first number of the source.       *)
(***************************************************************************)
PAWN_VALUE == 100
KNIGHT_VALUE == 320
BISHOP_VALUE == 330
ROOK_VALUE == 500
QUEEN_VALUE == 900
KING_VALUE == 20000
DOUBLED_PAWN_PENALTY == 15
ISOLATED_PAWN_PENALTY == 25
PASSED_PAWN_BONUS == 30
BISHOP_PAIR_BONUS == 50
ROOK_ON_SEVENTH_BONUS == 30
ROOK_ON_OPEN_FILE_BONUS == 15
KING_PAWN_SHIELD_BONUS == 15
CASTLING_RIGHTS_BONUS == 30
MOBILITY_SCORE_MULTIPLIER == 3
CENTER_CONTROL_BONUS == 8
ENDGAME_MATERIAL_THRESHOLD == 1800

pawn_table ==
    <<  0,  0,  0,  0,  0,  0,  0,  0,
       50, 50, 50, 50, 50, 50, 50, 50,
       10, 10, 20, 30, 30, 20, 10, 10,
        5,  5, 10, 25, 25, 10,  5,  5,
        0,  0,  0, 20, 20,  0,  0,  0,
        5, -5,-10,  0,  0,-10, -5,  5,
        5, 10, 10,-20,-20, 10, 10,  5,
        0,  0,  0,  0,  0,  0,  0,  0 >>

knight_table ==
    << -50,-40,-30,-30,-30,-30,-40,-50,
       -40,-20,  0,  0,  0,  0,-20,-40,
       -30,  0, 10, 15, 15, 10,  0,-30,
       -30,  5, 15, 20, 20, 15,  5,-30,
       -30,  0, 15, 20, 20, 15,  0,-30,
       -30,  5, 10, 15, 15, 10,  5,-30,
       -40,-20,  0,  5,  5,  0,-20,-40,
       -50,-40,-30,-30,-30,-30,-40,-50 >>

bishop_table ==
    << -20,-10,-10,-10,-10,-10,-10,-20,
       -10,  0,  0,  0,  0,  0,  0,-10,
       -10,  0,  5, 10, 10,  5,  0,-10,
       -10,  5,  5, 10, 10,  5,  5,-10,
       -10,  0, 10, 10, 10, 10,  0,-10,
       -10, 10, 10, 10, 10, 10, 10,-10,
       -10,  5,  0,  0,  0,  0,  5,-10,
       -20,-10,-10,-10,-10,-10,-10,-20 >>

rook_table ==
    <<  0,  0,  0,  0,  0,  0,  0,  0,
        5, 10, 10, 10, 10, 10, 10,  5,
       -5,  0,  0,  0,  0,  0,  0, -5,
       -5,  0,  0,  0,  0,  0,  0, -5,
       -5,  0,  0,  0,  0,  0,  0, -5,
       -5,  0,  0,  0,  0,  0,  0, -5,
       -5,  0,  0,  0,  0,  0,  0, -5,
        0,  0,  0,  5,  5,  0,  0,  0 >>

queen_table ==
    << -20,-10,-10, -5, -5,-10,-10,-20,
       -10,  0,  0,  0,  0,  0,  0,-10,
       -10,  0,  5,  5,  5,  5,  0,-10,
        -5,  0,  5,  5,  5,  5,  0, -5,
         0,  0,  5,  5,  5,  5,  0, -5,
       -10,  5,  5,  5,  5,  5,  0,-10,
       -10,  0,  5,  0,  0,  0,  0,-10,
       -20,-10,-10, -5, -5,-10,-10,-20 >>

king_middlegame_table ==
    << -30,-40,-40,-50,-50,-40,-40,-30,
       -30,-40,-40,-50,-50,-40,-40,-30,
       -30,-40,-40,-50,-50,-40,-40,-30,
       -30,-40,-40,-50,-50,-40,-40,-30,
       -20,-30,-30,-40,-40,-30,-30,-20,
       -10,-20,-20,-20,-20,-20,-20,-10,
        20, 20,  0,  0,  0,  0, 20, 20,
        20, 30, 10,  0,  0, 10, 30, 20 >>

king_endgame_table ==
    << -50,-40,-30,-20,-20,-30,-40,-50,
       -30,-20,-10,  0,  0,-10,-20,-30,
       -30,-10, 20, 30, 30, 20,-10,-30,
       -30,-10, 30, 40, 40, 30,-10,-30,
       -30,-10, 30, 40, 40, 30,-10,-30,
       -30,-10, 20, 30, 30, 20,-10,-30,
       -30,-30,  0,  0,  0,  0,-30,-30,
       -50,-30,-30,-30,-30,-30,-30,-50 >>

\* the sum of a sequence of numbers
RECURSIVE SumSeq(_)
SumSeq(s) == IF s = << >> THEN 0 ELSE Head(s) + SumSeq(Tail(s))

count_bits(bb) == Cardinality(bb)

\* Bitboard(File) and Bitboard(Rank)
file_bitboard(file) == {sq \in Squares : file_of(sq) = file}
rank_bitboard(rank) == {sq \in Squares : rank_of(sq) = rank}

\* Evaluator::is_only_kings
is_only_kings(p) ==
    \A c \in Colors : \A pt \in PieceTypes :
        pt # King => count_bits(p.pieces_[c][pt]) = 0

evaluate_material(p) ==
    LET material(c) ==
            count_bits(p.pieces_[c][Pawn]) * PAWN_VALUE
            + count_bits(p.pieces_[c][Knight]) * KNIGHT_VALUE
            + count_bits(p.pieces_[c][Bishop]) * BISHOP_VALUE
            + count_bits(p.pieces_[c][Rook]) * ROOK_VALUE
            + count_bits(p.pieces_[c][Queen]) * QUEEN_VALUE
    IN  material(White) - material(Black)

\* what one call adds to the score: black squares are mirrored vertically
evaluate_piece_type_squares(p, color, type, table) ==
    LET sqs == PopLsbSeq(p.pieces_[color][type])
        table_index(sq) ==
            IF color = Black THEN (7 - (sq \div 8)) * 8 + (sq % 8) ELSE sq
    IN  SumSeq([i \in 1 .. Len(sqs) |-> table[table_index(sqs[i]) + 1]])

evaluate_piece_squares(p) ==
    LET both(type) == count_bits(p.pieces_[White][type]) + count_bits(p.pieces_[Black][type])
        total_material ==
            both(Queen) * QUEEN_VALUE + both(Rook) * ROOK_VALUE
            + both(Bishop) * BISHOP_VALUE + both(Knight) * KNIGHT_VALUE
        is_endgame == total_material < ENDGAME_MATERIAL_THRESHOLD
        king_table == IF is_endgame THEN king_endgame_table ELSE king_middlegame_table
        score(c) ==
            evaluate_piece_type_squares(p, c, Pawn, pawn_table)
            + evaluate_piece_type_squares(p, c, Knight, knight_table)
            + evaluate_piece_type_squares(p, c, Bishop, bishop_table)
            + evaluate_piece_type_squares(p, c, Rook, rook_table)
            + evaluate_piece_type_squares(p, c, Queen, queen_table)
            + evaluate_piece_type_squares(p, c, King, king_table)
    IN  score(White) - score(Black)

\* the score of the pawns of one colour
PawnStructure(p, color) ==
    LET pawns == p.pieces_[color][Pawn]
        sqs == PopLsbSeq(pawns)
        enemy_pawn == make_piece(opposite_color(color), Pawn)
        ahead(rank) == IF color = White THEN (rank + 1) .. 7 ELSE 0 .. (rank - 1)
        one(pawn_sq) ==
            LET pawn_file == file_of(pawn_sq)
                pawn_rank == rank_of(pawn_sq)
                doubled == count_bits(pawns \cap file_bitboard(pawn_file)) > 1
                has_neighbor ==
                    \/ pawn_file > 0 /\ count_bits(pawns \cap file_bitboard(pawn_file - 1)) > 0
                    \/ pawn_file < 7 /\ count_bits(pawns \cap file_bitboard(pawn_file + 1)) > 0
                is_passed ==
                    \A r \in ahead(pawn_rank) :
                        piece_on(p, make_square(pawn_file, r)) # enemy_pawn
            IN  (IF doubled THEN -DOUBLED_PAWN_PENALTY ELSE 0)
                + (IF has_neighbor THEN 0 ELSE -ISOLATED_PAWN_PENALTY)
                + (IF ~is_passed THEN 0
                   ELSE IF color = White THEN PASSED_PAWN_BONUS * pawn_rank
                   ELSE PASSED_PAWN_BONUS * (7 - pawn_rank))
    IN  SumSeq([i \in 1 .. Len(sqs) |-> one(sqs[i])])

evaluate_pawn_structure(p) == PawnStructure(p, White) - PawnStructure(p, Black)

\* the score of one king: castling rights kept, pawns in front of a king on
\* its home rank
KingSafety(p, color) ==
    LET oo == IF color = White THEN White_OO ELSE Black_OO
        ooo == IF color = White THEN White_OOO ELSE Black_OOO
        king == king_square(p, color)
        home == IF color = White THEN 0 ELSE 7
        shield_rank == IF color = White THEN 1 ELSE 6
        king_file == file_of(king)
        lo == IF king_file - 1 > 0 THEN king_file - 1 ELSE 0
        hi == Min2(7, king_file + 1)
        shield == {f \in lo .. hi :
                      piece_on(p, make_square(f, shield_rank)) = make_piece(color, Pawn)}
    IN  (IF HasRight(p.castling_rights_, oo) \/ HasRight(p.castling_rights_, ooo)
         THEN CASTLING_RIGHTS_BONUS ELSE 0)
        + (IF rank_of(king) = home THEN KING_PAWN_SHIELD_BONUS * Cardinality(shield) ELSE 0)

evaluate_king_safety(p) == KingSafety(p, White) - KingSafety(p, Black)

count_knight_moves(p, sq) ==
    count_bits(knight_attacks(sq) \ p.occupied_by_color_[color_of(piece_on(p, sq))])

count_bishop_moves(p, sq) ==
    count_bits(bishop_attacks(sq, p.occupied_) \ p.occupied_by_color_[color_of(piece_on(p, sq))])

count_rook_moves(p, sq) ==
    count_bits(rook_attacks(sq, p.occupied_) \ p.occupied_by_color_[color_of(piece_on(p, sq))])

\* the pseudo-attacks of the knights, bishops and rooks of one colour
Mobility(p, color) ==
    LET knights == PopLsbSeq(p.pieces_[color][Knight])
        bishops == PopLsbSeq(p.pieces_[color][Bishop])
        rooks == PopLsbSeq(p.pieces_[color][Rook])
    IN  SumSeq([i \in 1 .. Len(knights) |-> count_knight_moves(p, knights[i])])
        + SumSeq([i \in 1 .. Len(bishops) |-> count_bishop_moves(p, bishops[i])])
        + SumSeq([i \in 1 .. Len(rooks) |-> count_rook_moves(p, rooks[i])])

center_squares == << 27, 28, 35, 36 >>

evaluate_mobility(p) ==
    LET center(sq) ==
            IF piece_on(p, sq) = PieceNone THEN 0
            ELSE IF color_of(piece_on(p, sq)) = White THEN CENTER_CONTROL_BONUS
            ELSE -CENTER_CONTROL_BONUS
    IN  (Mobility(p, White) - Mobility(p, Black)) * MOBILITY_SCORE_MULTIPLIER
        + SumSeq([i \in 1 .. 4 |-> center(center_squares[i])])

\* the bonuses of the bishops and rooks of one colour
PieceBonuses(p, color) ==
    LET rooks == p.pieces_[color][Rook]
        seventh == IF color = White THEN 6 ELSE 1
        open(sq) ==
            /\ count_bits(p.pieces_[White][Pawn] \cap file_bitboard(file_of(sq))) = 0
            /\ count_bits(p.pieces_[Black][Pawn] \cap file_bitboard(file_of(sq))) = 0
    IN  (IF count_bits(p.pieces_[color][Bishop]) >= 2 THEN BISHOP_PAIR_BONUS ELSE 0)
        + ROOK_ON_SEVENTH_BONUS * Cardinality({sq \in rooks : rank_of(sq) = seventh})
        + ROOK_ON_OPEN_FILE_BONUS * Cardinality({sq \in rooks : open(sq)})

evaluate_piece_bonuses(p) == PieceBonuses(p, White) - PieceBonuses(p, Black)

\* the score from the side to move's point of view
ForSideToMove(p, score) == IF p.side_to_move_ = White THEN score ELSE -score

\* Evaluator::evaluate: the score for the side to move
evaluate(p) ==
    IF is_only_kings(p) THEN 0
    ELSE ForSideToMove(p, evaluate_material(p) + evaluate_piece_squares(p)
                          + evaluate_pawn_structure(p) + evaluate_king_safety(p)
                          + evaluate_mobility(p) + evaluate_piece_bonuses(p))

(***************************************************************************)
(* search.cpp, engine.cpp, time_manager.cpp: the pure parts.               *)
(***************************************************************************)
DEFAULT_SEARCH_DEPTH == 12
MAX_SEARCH_DEPTH == 30
TT_MOVE_SCORE == 15000
WINNING_CAPTURE_SCORE == 10000
PROMOTION_SCORE == 9500
KILLER_MOVE_1_SCORE == 8000
KILLER_MOVE_2_SCORE == 7000

\* MVV_LVA_OFFSET[attacker][victim]
MVV_LVA_OFFSET ==
    << << 105, 205, 305, 405, 505, 605 >>,
       << 104, 204, 304, 404, 504, 604 >>,
       << 103, 203, 303, 403, 503, 603 >>,
       << 102, 202, 302, 402, 502, 602 >>,
       << 101, 201, 301, 401, 501, 601 >>,
       << 100, 200, 300, 400, 500, 600 >> >>

\* the time is sampled once in this many node entries: CHECK_FREQUENCY of
\* constants.h, which is 2048, scaled down to the trees searched here
CheckFrequency == 4

get_piece_value(pt) ==
    CASE pt = Pawn -> PAWN_VALUE
      [] pt = Knight -> KNIGHT_VALUE
      [] pt = Bishop -> BISHOP_VALUE
      [] pt = Rook -> ROOK_VALUE
      [] pt = Queen -> QUEEN_VALUE
      [] pt = King -> KING_VALUE
      [] OTHER -> 0

\* a Move of killer_moves_ after the constructor's memset to zero
ZeroMove ==
    [from_square |-> 0, to_square |-> 0, move_type |-> "Normal",
     promotion_piece |-> 0, captured_piece |-> 0, previous_castling_rights |-> 0,
     previous_en_passant_square |-> 0, previous_halfmove_clock |-> 0]

\* the rows of killer_moves_ the model keeps, of the MAX_PLY rows of the array:
\* the searches explored use no row beyond them
KillerRows == 6

ZeroKillers ==
    [ply \in 0 .. (Min2(KillerRows, MAX_PLY) - 1) |-> << ZeroMove, ZeroMove >>]

\* the row of killer_moves_ used at a position
KillerPly(p) == Min2(Len(p.move_history_), MAX_PLY - 1)

\* the score order_moves gives a move
MoveOrderScore(move, p, tt_move, killers) ==
    IF tt_move.from_square # SquareNone /\ MoveEq(move, tt_move) THEN TT_MOVE_SCORE
    ELSE IF move.move_type \in {"Capture", "EnPassant"}
    THEN LET victim == IF move.move_type = "EnPassant"
                       THEN (IF p.side_to_move_ = White
                             THEN make_piece(Black, Pawn) ELSE make_piece(White, Pawn))
                       ELSE piece_on(p, move.to_square)
             attacker == piece_on(p, move.from_square)
         IN  IF attacker # PieceNone /\ victim # PieceNone
             THEN WINNING_CAPTURE_SCORE
                  + MVV_LVA_OFFSET[type_of(attacker) + 1][type_of(victim) + 1]
             ELSE 0
    ELSE IF move.move_type = "Promotion"
    THEN PROMOTION_SCORE + get_piece_value(type_of(move.promotion_piece))
    ELSE IF MoveEq(move, killers[KillerPly(p)][1]) THEN KILLER_MOVE_1_SCORE
    ELSE IF MoveEq(move, killers[KillerPly(p)][2]) THEN KILLER_MOVE_2_SCORE
    ELSE 0

\* Search::order_moves: the moves by descending score.  std::sort on lists
\* this short is an insertion sort, which keeps moves of equal score in order.
order_moves(moves, p, tt_move, killers) ==
    LET n == Len(moves)
        scores == [i \in 1 .. n |-> MoveOrderScore(moves[i], p, tt_move, killers)]
        place(i) == 1 + Cardinality({j \in 1 .. n :
                            \/ scores[j] > scores[i]
                            \/ scores[j] = scores[i] /\ j < i})
    IN  [k \in 1 .. n |-> moves[CHOOSE i \in 1 .. n : place(i) = k]]

\* TimeManager::should_stop: elapsed >= allocated_time_ms_, where `passed`
\* says that a positive allocated time has elapsed
should_stop(allocated, passed) == allocated <= 0 \/ passed

\* should_check_time asking the TimeManager at every call
should_check_time_EveryNode(counter, allocated, passed) ==
    [counter |-> 0, stop |-> should_stop(allocated, passed)]

\* Search::should_check_time: the counter after the call, and what it returns
should_check_time(counter, allocated, passed) ==
    IF counter + 1 >= CheckFrequency
    THEN [counter |-> 0, stop |-> should_stop(allocated, passed)]
    ELSE [counter |-> counter + 1, stop |-> FALSE]

\* the score of a node without legal moves
NoMovesScore(p) ==
    IF is_in_check(p) THEN -MATE_SCORE + Len(p.move_history_) ELSE 0

\* the bound negamax stores with a score
BoundOf(best_score, original_alpha, beta) ==
    IF best_score <= original_alpha THEN UPPER_BOUND
    ELSE IF best_score >= beta THEN LOWER_BOUND
    ELSE EXACT

\* killer_moves_ after a beta cutoff by `move` at row `ply`
UpdateKillers(killers, ply, move) ==
    IF move.move_type # "Capture"
    THEN [killers EXCEPT ![ply] = << move, killers[ply][1] >>]
    ELSE killers

\* quiescence over every legal move
QuiescenceMoves_All(all_moves) == all_moves
\* the captures and promotions quiescence searches
QuiescenceMoves(all_moves) ==
    SelectSeq(all_moves,
              LAMBDA m : m.move_type \in {"Capture", "EnPassant", "Promotion"})

\* the moves the opening shortcut of search_position chooses from
OpeningMoves(legal_moves) ==
    SelectSeq(legal_moves, LAMBDA m :
        \/ m.from_square = 12 /\ m.to_square = 28
        \/ m.from_square = 11 /\ m.to_square = 27
        \/ m.from_square = 6 /\ m.to_square = 21
        \/ m.from_square = 10 /\ m.to_square = 26)

\* Engine::set_max_depth
set_max_depth(depth) ==
    LET capped == Min2(depth, MAX_SEARCH_DEPTH)
    IN  IF capped > 1 THEN capped ELSE 1

\* Engine::find_best_move after search_position has returned `best_move`
FirstLegalIfNone_Kept(best_move, p) == best_move
FirstOf(legal_moves, best_move) ==
    IF legal_moves # << >> THEN legal_moves[1] ELSE best_move

FirstLegalIfNone(best_move, p) ==
    IF best_move.from_square # SquareNone THEN best_move
    ELSE FirstOf(generate_legal_moves(p), best_move)

\* a frame of negamax_root, negamax or quiescence on the call stack
Frame(fn, depth, alpha, beta, ply) ==
    [fn |-> fn, pc |-> "enter", depth |-> depth, alpha |-> alpha, beta |-> beta,
     ply |-> ply, original_alpha |-> alpha, hash_key |-> {}, moves |-> << >>,
     i |-> 1, best_score |-> -INFINITY_SCORE, best_move |-> NullMove]

(***************************************************************************)
(* The Position as a state machine: the object after its constructor, and  *)
(* the calls load_fen, make_move of a legal move, undo_move.               *)
(***************************************************************************)
VARIABLES
    pos,            \* the Position object
    failed_loads,   \* the load_fen calls that returned false since the last that returned true
    table_,         \* TranspositionTable::table_
    current_age_,   \* TranspositionTable::current_age_
    probe_out,      \* what the last probe returned, and its reference parameters
    stop_search_,   \* Search::stop_search_
    nodes_since_time_check_,    \* Search::nodes_since_time_check_
    info_,          \* Search::info_
    killer_moves_,  \* Search::killer_moves_
    max_depth_,     \* Engine::max_depth_
    allocated_time_ms_,         \* TimeManager::allocated_time_ms_
    deadline_passed,            \* the allocated time has elapsed since start_search
    search_position,            \* the copy of the position that find_best_move searches
    sp,             \* search_position: where it is, depth, best_move, iteration_best_move
    stack,          \* the frames of negamax_root, negamax and quiescence
    ret,            \* the value the last frame returned
    returned_move,  \* what search_position returned
    found_move,     \* what find_best_move returned
    searches,       \* the calls of find_best_move so far
    stop_iteration, \* the iteration in which stop_search_ was set, 0 if in none
    completed,      \* the best moves of the iterations that ended with the flag clear
    stored_after_stop,          \* store has been called while stop_search_ was set
    uci_plus_mode_, \* UnifiedUCIInterface::uci_plus_mode_
    searching_,     \* UnifiedUCIInterface::searching_
    uci_stop_search_,           \* UnifiedUCIInterface::stop_search_
    loop,           \* where run is, and the go command it handles
    thread,         \* search_thread_: where it is, its go command, joinable()
    gos,            \* the go commands read so far
    commands,       \* the other commands read so far
    output,         \* the lines written to std::cout
    tokens,         \* the move tokens handle_position has yet to read
    rule_engine_,   \* VariantPosition::rule_engine_ is not null
    koth_active_,   \* RuleEngine::koth_active_
    game_result_    \* VariantPosition::game_result_

posVars == << pos, failed_loads >>
ttVars == << table_, current_age_, probe_out >>
searchVars ==
    << stop_search_, nodes_since_time_check_, info_, killer_moves_, max_depth_,
       allocated_time_ms_, deadline_passed, search_position, sp, stack, ret,
       returned_move, found_move, searches, stop_iteration, completed,
       stored_after_stop >>
variantVars == << rule_engine_, koth_active_, game_result_ >>
uciVars ==
    << uci_plus_mode_, searching_, uci_stop_search_, loop, thread, gos, commands,
       output, tokens, variantVars >>
vars == << posVars, ttVars, searchVars, uciVars >>

\* the members of a Position before the constructor's load_fen
BlankPosition ==
    [pieces_ |-> EmptyPieces,
     occupied_by_color_ |-> [c \in Colors |-> {}],
     occupied_ |-> {},
     board_ |-> EmptyBoard,
     side_to_move_ |-> White,
     castling_rights_ |-> 0,
     en_passant_square_ |-> SquareNone,
     halfmove_clock_ |-> 0,
     fullmove_number_ |-> 1,
     move_history_ |-> <<>>,
     hash_key_ |-> {}]

\* Position::Position()
NewPosition == load_fen(BlankPosition, StartFen).pos

PosInit ==
    /\ pos = NewPosition
    /\ failed_loads = 0

\* TranspositionTable::TranspositionTable
TTInit ==
    /\ table_ = ClearedTable
    /\ current_age_ = 0
    /\ probe_out = NoProbe

\* Search::Search, Engine::Engine, TimeManager::TimeManager
SearchInit ==
    /\ stop_search_ = FALSE
    /\ nodes_since_time_check_ = 0
    /\ info_ = [nodes_searched |-> 0, depth_reached |-> 0, score |-> 0, pv |-> << >>]
    /\ killer_moves_ = ZeroKillers
    /\ max_depth_ = DEFAULT_SEARCH_DEPTH
    /\ allocated_time_ms_ = 5000
    /\ deadline_passed = FALSE
    /\ search_position = NewPosition
    /\ sp = [pc |-> "idle", depth |-> 0, best_move |-> NullMove,
             iteration_best_move |-> NullMove]
    /\ stack = << >>
    /\ ret = 0
    /\ returned_move = NullMove
    /\ found_move = NullMove
    /\ searches = 0
    /\ stop_iteration = 0
    /\ completed = << >>
    /\ stored_after_stop = FALSE

\* UnifiedUCIInterface::UnifiedUCIInterface
UCIInit ==
    /\ uci_plus_mode_ = FALSE
    /\ searching_ = FALSE
    /\ uci_stop_search_ = FALSE
    /\ loop = [pc |-> "read", go |-> 0]
    /\ thread = [pc |-> "none", go |-> 0, joinable |-> FALSE, depth |-> 0]
    /\ gos = << >>
    /\ commands = 0
    /\ output = << >>
    /\ tokens = << >>

\* VariantPosition::VariantPosition with no rule engine, and a RuleEngine
VariantInit ==
    /\ rule_engine_ = FALSE
    /\ koth_active_ = FALSE
    /\ game_result_ = "None"

Init == PosInit /\ TTInit /\ SearchInit /\ UCIInit /\ VariantInit

\* r is what load_fen returned and the Position it left
Loaded(r) ==
    /\ r.ok \/ failed_loads < MaxFailedLoads
    /\ pos' = r.pos
    /\ failed_loads' = IF r.ok THEN 0 ELSE failed_loads + 1

LoadFen ==
    /\ \E fen \in ValidFens \cup InvalidFens : Loaded(load_fen(pos, fen))
    /\ UNCHANGED << ttVars, searchVars, uciVars >>

MakeMove ==
    /\ Len(pos.move_history_) < MaxHistory
    /\ \E move \in Range(generate_legal_moves(pos)) : pos' = make_move(pos, move)
    /\ UNCHANGED << failed_loads, ttVars, searchVars, uciVars >>

UndoMove ==
    /\ pos' = undo_move(pos)
    /\ UNCHANGED << failed_loads, ttVars, searchVars, uciVars >>

Next == LoadFen \/ MakeMove \/ UndoMove

Spec == Init /\ [][Next]_vars

(***************************************************************************)
(* The transposition table as a state machine: store, probe, new_search    *)
(* and clear, called with keys, scores, depths, bounds, moves and plies of *)
(* small sets.                                                             *)
(***************************************************************************)
\* the first and the third key share an entry of the table, the second has
\* the other
TTKeys == {{piece_keys_(A1, 0)}, {piece_keys_(A1, 1)}, {piece_keys_(A1, 2)}}
\* a score of the evaluation, and the score of a mate ten plies from the root
TTScores == {40, MATE_SCORE - 10}
TTDepths == {1, 3}
TTPlies == {0, 2}
\* the bound and best move stored together
TTPayloads == {<< EXACT, NullMove >>, << LOWER_BOUND, Move(E1, G1, "Castle", PieceNone) >>}
\* new_search is explored while the age is below this
MaxAge == 1
\* scores of a mate ten plies from the root, for the side to move and against it
TTMateScores == {MATE_SCORE - 10, -(MATE_SCORE - 10)}
\* the calls of new_search between two stores: few, and up to where the age
\* has gone round
NewSearchCalls == {1, 2, 255, 256}

Store ==
    /\ \E key \in TTKeys, score \in TTScores, depth \in TTDepths,
          payload \in TTPayloads, ply \in TTPlies :
          table_' = store(table_, current_age_, key, score, depth,
                          payload[1], payload[2], ply)
    /\ UNCHANGED << current_age_, probe_out, posVars, searchVars, uciVars >>

Probe ==
    /\ \E key \in TTKeys, ply \in TTPlies :
          probe_out' = probe(table_, key, ply, probe_out)
    /\ UNCHANGED << table_, current_age_, posVars, searchVars, uciVars >>

NewSearch ==
    /\ current_age_ < MaxAge
    /\ current_age_' = NextAge(current_age_)
    /\ UNCHANGED << table_, probe_out, posVars, searchVars, uciVars >>

Clear ==
    /\ table_' = ClearedTable
    /\ UNCHANGED << current_age_, probe_out, posVars, searchVars, uciVars >>

NextTT == Store \/ Probe \/ NewSearch \/ Clear

SpecTT == Init /\ [][NextTT]_vars

(***************************************************************************)
(* Engine::find_best_move and Search::search_position as a state machine.  *)
(* The calls of negamax_root, negamax and quiescence are frames of `stack`;*)
(* a step runs the code of the top frame from one read of stop_search_ up  *)
(* to the next.  Search::stop and the passing of the allocated time are    *)
(* steps of the environment, taken between any two of them.                *)
(***************************************************************************)
\* the positions searched: a king and a pawn against a king with a pawn to
\* capture, and the initial position, which takes the opening shortcut
\*   . . . . . . . k
\*   . . . . . . . .
\*   . . . . . . . .
\*   . . . . . . . .
\*   . . . . . . . .
\*   . p . . . . . .
\*   . . . . . . . .
\*   K . . . . . . .
SearchFen ==
    << << "7", "k", "/", "8", "/", "8", "/", "8", "/", "8", "/",
          "1", "p", "6", "/", "8", "/", "K", "7" >>,
       << "w" >>, << "-" >>, << "-" >>, << "0" >>, << "1" >> >>

\* the same ending with the pawn next to the white king, which can take it
LastPawnFen ==
    << << "7", "k", "/", "8", "/", "8", "/", "8", "/", "8", "/",
          "8", "/", "1", "p", "6", "/", "K", "7" >>,
       << "w" >>, << "-" >>, << "-" >>, << "0" >>, << "1" >> >>

\* White mates with the rook on a8
MateInOneFen ==
    << << "7", "k", "/", "8", "/", "7", "K", "/", "8", "/", "8", "/", "8", "/", "8", "/", "R", "7" >>,
       << "w" >>,
       << "-" >>,
       << "-" >>,
       << "0" >>,
       << "1" >> >>

SearchFens == {SearchFen, LastPawnFen, TwoKingsFen, StartFen, MateInOneFen}
\* the moves made on the position before it is searched, by their squares
PlayedMoves == {<< A1, A8 >>}
\* how many of them are made
MaxPlayed == 1
\* the depths given to set_max_depth
SearchDepths == {1, 2}
\* the time given to find_best_move: none, or some milliseconds
SearchTimes == {0, 100}
\* find_best_move is called while max_depth_ is at most this
MaxSearchDepth == 2
\* the calls of find_best_move
MaxSearches == 1

Top == stack[Len(stack)]
Pop == SubSeq(stack, 1, Len(stack) - 1)
ReplaceTop(frame) == [stack EXCEPT ![Len(stack)] = frame]

\* the caller of the Engine gives it a position
SetPosition ==
    /\ sp.pc = "idle"
    /\ \E fen \in SearchFens : pos' = load_fen(pos, fen).pos
    /\ UNCHANGED << failed_loads, ttVars, searchVars, uciVars >>

SetMaxDepth ==
    /\ sp.pc = "idle"
    /\ \E depth \in SearchDepths : max_depth_' = set_max_depth(depth)
    /\ UNCHANGED << posVars, ttVars, uciVars, stop_search_, nodes_since_time_check_,
                    info_, killer_moves_, allocated_time_ms_, deadline_passed,
                    search_position, sp, stack, ret, returned_move, found_move,
                    searches, stop_iteration, completed, stored_after_stop >>

\* search_position up to its loop: a move of the opening book is returned, or
\* the first iteration is next
SearchPositionBegins(opening_moves) ==
    IF opening_moves # << >>
    THEN \E k \in 1 .. Len(opening_moves) :
           /\ info_' = [nodes_searched |-> 1, depth_reached |-> 1, score |-> 0,
                        pv |-> << opening_moves[k] >>]
           /\ sp' = [pc |-> "done", depth |-> 0, best_move |-> NullMove,
                     iteration_best_move |-> NullMove]
           /\ returned_move' = opening_moves[k]
           /\ found_move' = opening_moves[k]
    ELSE /\ info_' = [nodes_searched |-> 0, depth_reached |-> 0, score |-> 0,
                      pv |-> << >>]
         /\ sp' = [pc |-> "iterate", depth |-> 1, best_move |-> NullMove,
                   iteration_best_move |-> NullMove]
         /\ UNCHANGED << returned_move, found_move >>

\* Engine::find_best_move up to the first iteration of search_position
FindBestMove ==
    /\ sp.pc = "idle"
    /\ searches < MaxSearches
    /\ max_depth_ <= MaxSearchDepth
    /\ searches' = searches + 1
    /\ search_position' = pos
    /\ \E time_ms \in SearchTimes : allocated_time_ms_' = time_ms
    /\ deadline_passed' = FALSE
    /\ stop_search_' = FALSE
    /\ nodes_since_time_check_' = 0
    /\ stack' = << >>
    /\ stop_iteration' = 0
    /\ completed' = << >>
    /\ stored_after_stop' = FALSE
    /\ SearchPositionBegins(IF to_fen(pos) = StartFen
                            THEN OpeningMoves(generate_legal_moves(pos)) ELSE << >>)
    /\ UNCHANGED << posVars, ttVars, uciVars, killer_moves_, max_depth_, ret >>

\* the head of the iterative-deepening loop: the next iteration starts, or
\* search_position returns and find_best_move finishes
Iterate ==
    /\ sp.pc = "iterate"
    /\ IF sp.depth <= max_depth_ /\ ~stop_search_
       THEN /\ current_age_' = NextAge(current_age_)
            /\ stack' = << Frame("negamax_root", sp.depth, -INFINITY_SCORE,
                                 INFINITY_SCORE, 0) >>
            /\ sp' = [sp EXCEPT !.pc = "in_root", !.iteration_best_move = NullMove]
            /\ UNCHANGED << returned_move, found_move >>
       ELSE /\ sp' = [sp EXCEPT !.pc = "done"]
            /\ returned_move' = sp.best_move
            /\ found_move' = FirstLegalIfNone(sp.best_move, search_position)
            /\ UNCHANGED << current_age_, stack >>
    /\ UNCHANGED << posVars, uciVars, table_, probe_out, stop_search_,
                    nodes_since_time_check_, info_, killer_moves_, max_depth_,
                    allocated_time_ms_, deadline_passed, search_position, ret,
                    searches, stop_iteration, completed, stored_after_stop >>

\* best_move once an iteration has ended with the flag clear
RetainedBestMove_Kept(best_move, iteration_best_move) == best_move
RetainedBestMove(best_move, iteration_best_move) ==
    IF iteration_best_move.from_square # SquareNone THEN iteration_best_move ELSE best_move

\* negamax_root has returned: the iteration counts if the flag is clear
AfterRoot ==
    /\ sp.pc = "in_root"
    /\ stack = << >>
    /\ IF ~stop_search_
       THEN /\ info_' = [info_ EXCEPT
                            !.depth_reached = sp.depth,
                            !.score = ret,
                            !.pv = IF sp.iteration_best_move.from_square # SquareNone
                                      /\ info_.pv = << >>
                                   THEN << sp.iteration_best_move >> ELSE @]
            /\ sp' = [sp EXCEPT
                         !.pc = "iterate",
                         !.depth = @ + 1,
                         !.best_move = RetainedBestMove(@, sp.iteration_best_move)]
            /\ completed' = Append(completed, sp.iteration_best_move)
       ELSE /\ sp' = [sp EXCEPT !.pc = "iterate", !.depth = @ + 1]
            /\ UNCHANGED << info_, completed >>
    /\ UNCHANGED << posVars, ttVars, uciVars, stop_search_, nodes_since_time_check_,
                    killer_moves_, max_depth_, allocated_time_ms_, deadline_passed,
                    search_position, stack, ret, returned_move, found_move,
                    searches, stop_iteration, stored_after_stop >>

\* what no step of negamax_root, negamax or quiescence changes
nodeFrame ==
    << posVars, uciVars, current_age_, probe_out, max_depth_, allocated_time_ms_,
       deadline_passed, returned_move, found_move, searches, completed >>

\* the time check at the entry of a node
EntryCheck == should_check_time(nodes_since_time_check_, allocated_time_ms_, deadline_passed)

\* the entry of a node finds the time elapsed: stop_search_ = true; return 0
TimeIsUp ==
    /\ nodes_since_time_check_' = EntryCheck.counter
    /\ stop_search_' = TRUE
    /\ stop_iteration' = IF stop_search_ THEN stop_iteration ELSE sp.depth
    /\ stack' = Pop
    /\ ret' = 0
    /\ UNCHANGED << info_, killer_moves_, search_position, sp, table_, stored_after_stop >>

\* the top frame returns `value` and changes nothing else but the counters
Return(value) ==
    /\ stack' = Pop
    /\ ret' = value
    /\ UNCHANGED << stop_search_, stop_iteration, killer_moves_, search_position, sp,
                    table_, stored_after_stop >>

\* the top frame goes on as `frame`
Continue(frame) ==
    /\ stack' = ReplaceTop(frame)
    /\ UNCHANGED << stop_search_, stop_iteration, killer_moves_, search_position, sp,
                    table_, stored_after_stop, ret >>

\* the top frame makes its move i and calls `callee` on the position reached
Descend(callee) ==
    /\ search_position' = make_move(search_position, Top.moves[Top.i])
    /\ stack' = Append(ReplaceTop([Top EXCEPT !.pc = "after_child"]),
                       Frame(callee, Top.depth - 1, -Top.beta, -Top.alpha, Top.ply + 1))
    /\ UNCHANGED << stop_search_, stop_iteration, nodes_since_time_check_, info_,
                    killer_moves_, sp, table_, stored_after_stop, ret >>

CountNode ==
    /\ nodes_since_time_check_' = EntryCheck.counter
    /\ info_' = [info_ EXCEPT !.nodes_searched = @ + 1]

\* negamax_root with the legal moves of its position
RootEntered(legal_moves) ==
    IF legal_moves = << >>
    THEN Return(NoMovesScore(search_position))
    ELSE Continue([Top EXCEPT
             !.pc = "loop",
             !.moves = order_moves(legal_moves, search_position, NullMove,
                                   killer_moves_)])

\* negamax_root from its entry to the loop over the moves
RootEnter ==
    /\ stack # << >> /\ Top.fn = "negamax_root" /\ Top.pc = "enter"
    /\ IF EntryCheck.stop
       THEN TimeIsUp
       ELSE /\ CountNode
            /\ RootEntered(generate_legal_moves(search_position))
    /\ UNCHANGED nodeFrame

\* the head of the loop of negamax_root
RootLoop ==
    /\ stack # << >> /\ Top.fn = "negamax_root" /\ Top.pc = "loop"
    /\ IF Top.i > Len(Top.moves) \/ stop_search_
       THEN Return(Top.best_score) /\ UNCHANGED << nodes_since_time_check_, info_ >>
       ELSE Descend("negamax")
    /\ UNCHANGED nodeFrame

\* negamax_root after the search of its move i
RootAfterChild ==
    /\ stack # << >> /\ Top.fn = "negamax_root" /\ Top.pc = "after_child"
    /\ LET score == -ret
           move == Top.moves[Top.i]
           better == score > Top.best_score
       IN  /\ search_position' = undo_move(search_position)
           /\ IF stop_search_
              THEN /\ stack' = Pop
                   /\ ret' = Top.best_score
                   /\ UNCHANGED << sp, killer_moves_ >>
              ELSE /\ sp' = IF better THEN [sp EXCEPT !.iteration_best_move = move]
                            ELSE sp
                   /\ IF score >= Top.beta
                      THEN /\ killer_moves_' = UpdateKillers(killer_moves_, 0, move)
                           /\ stack' = Pop
                           /\ ret' = Top.beta
                      ELSE /\ stack' = ReplaceTop([Top EXCEPT
                                  !.pc = "loop",
                                  !.i = @ + 1,
                                  !.best_score = IF better THEN score ELSE @,
                                  !.best_move = IF better THEN move ELSE @,
                                  !.alpha = IF better /\ score > @ THEN score ELSE @])
                           /\ UNCHANGED << killer_moves_, ret >>
    /\ UNCHANGED << stop_search_, stop_iteration, nodes_since_time_check_, info_,
                    table_, stored_after_stop >>
    /\ UNCHANGED nodeFrame

\* what negamax does with a table hit: the value it returns at once, or the
\* window it goes on with
UseProbe(hit, depth, alpha, beta) ==
    LET go_on(a, b) == IF a >= b THEN [cut |-> TRUE, score |-> hit.score, alpha |-> a, beta |-> b]
                       ELSE [cut |-> FALSE, score |-> 0, alpha |-> a, beta |-> b]
        cut == [cut |-> TRUE, score |-> hit.score, alpha |-> alpha, beta |-> beta]
    IN  IF ~hit.found \/ hit.depth < depth
        THEN [cut |-> FALSE, score |-> 0, alpha |-> alpha, beta |-> beta]
        ELSE IF hit.bound = EXACT THEN cut
        ELSE IF hit.bound = LOWER_BOUND
        THEN (IF hit.score >= beta THEN cut
              ELSE go_on(IF hit.score > alpha THEN hit.score ELSE alpha, beta))
        ELSE IF hit.bound = UPPER_BOUND
        THEN (IF hit.score <= alpha THEN cut
              ELSE go_on(alpha, IF hit.score < beta THEN hit.score ELSE beta))
        ELSE go_on(alpha, beta)

\* negamax after the probe, with what the probe gives and the legal moves
NegamaxEntered(tt_move, use, legal_moves) ==
    IF use.cut THEN Return(use.score)
    ELSE IF legal_moves = << >>
    THEN Return(NoMovesScore(search_position))
    ELSE IF Top.depth = 0
    THEN Continue(Frame("quiescence", 0, use.alpha, use.beta, Top.ply))
    ELSE Continue([Top EXCEPT
             !.pc = "loop",
             !.hash_key = search_position.hash_key_,
             !.alpha = use.alpha,
             !.beta = use.beta,
             !.moves = order_moves(legal_moves, search_position, tt_move,
                                   killer_moves_)])

NegamaxProbed(hit) ==
    NegamaxEntered(hit.best_move, UseProbe(hit, Top.depth, Top.alpha, Top.beta),
                   generate_legal_moves(search_position))

\* negamax from its entry to the loop over the moves
NegamaxEnter ==
    /\ stack # << >> /\ Top.fn = "negamax" /\ Top.pc = "enter"
    /\ IF EntryCheck.stop
       THEN TimeIsUp
       ELSE /\ CountNode
            /\ NegamaxProbed(probe(table_, search_position.hash_key_, Top.ply, NoProbe))
    /\ UNCHANGED nodeFrame

\* the end of negamax: the store to the table, and the return
NegamaxFinish(best_score, best_move) ==
    /\ table_' = store(table_, current_age_, Top.hash_key, best_score, Top.depth,
                       BoundOf(best_score, Top.original_alpha, Top.beta),
                       best_move, Top.ply)
    /\ stored_after_stop' = (stored_after_stop \/ stop_search_)
    /\ stack' = Pop
    /\ ret' = best_score

\* the head of the loop of negamax
NegamaxLoop ==
    /\ stack # << >> /\ Top.fn = "negamax" /\ Top.pc = "loop"
    /\ IF Top.i > Len(Top.moves) \/ stop_search_
       THEN /\ NegamaxFinish(Top.best_score, Top.best_move)
            /\ UNCHANGED << stop_search_, stop_iteration, nodes_since_time_check_,
                            info_, killer_moves_, search_position, sp >>
       ELSE Descend("negamax")
    /\ UNCHANGED nodeFrame

\* negamax after the search of its move i
NegamaxAfterChild ==
    /\ stack # << >> /\ Top.fn = "negamax" /\ Top.pc = "after_child"
    /\ LET score == -ret
           move == Top.moves[Top.i]
           better == score > Top.best_score
           undone == undo_move(search_position)
       IN  /\ search_position' = undone
           /\ IF stop_search_
              THEN /\ NegamaxFinish(Top.best_score, Top.best_move)
                   /\ UNCHANGED killer_moves_
              ELSE IF score >= Top.beta
              THEN /\ killer_moves_' = UpdateKillers(killer_moves_, KillerPly(undone), move)
                   /\ NegamaxFinish(Top.beta, move)
              ELSE /\ stack' = ReplaceTop([Top EXCEPT
                          !.pc = "loop",
                          !.i = @ + 1,
                          !.best_score = IF better THEN score ELSE @,
                          !.best_move = IF better THEN move ELSE @,
                          !.alpha = IF better /\ score > @ THEN score ELSE @])
                   /\ UNCHANGED << killer_moves_, table_, stored_after_stop, ret >>
    /\ UNCHANGED << stop_search_, stop_iteration, nodes_since_time_check_, info_, sp >>
    /\ UNCHANGED nodeFrame

\* quiescence with the evaluation of its position
QuiescenceEntered(stand_pat) ==
    IF stand_pat >= Top.beta THEN Return(Top.beta)
    ELSE Continue([Top EXCEPT
             !.pc = "loop",
             !.alpha = IF @ < stand_pat THEN stand_pat ELSE @,
             !.moves = order_moves(
                           QuiescenceMoves(generate_legal_moves(search_position)),
                           search_position, NullMove, killer_moves_)])

\* quiescence from its entry to the loop over the captures
QuiescenceEnter ==
    /\ stack # << >> /\ Top.fn = "quiescence" /\ Top.pc = "enter"
    /\ IF EntryCheck.stop
       THEN TimeIsUp
       ELSE /\ CountNode
            /\ QuiescenceEntered(evaluate(search_position))
    /\ UNCHANGED nodeFrame

\* the head of the loop of quiescence
QuiescenceLoop ==
    /\ stack # << >> /\ Top.fn = "quiescence" /\ Top.pc = "loop"
    /\ IF Top.i > Len(Top.moves) \/ stop_search_
       THEN Return(Top.alpha) /\ UNCHANGED << nodes_since_time_check_, info_ >>
       ELSE Descend("quiescence")
    /\ UNCHANGED nodeFrame

\* quiescence after the search of its capture i
QuiescenceAfterChild ==
    /\ stack # << >> /\ Top.fn = "quiescence" /\ Top.pc = "after_child"
    /\ LET score == -ret
       IN  /\ search_position' = undo_move(search_position)
           /\ IF score >= Top.beta
              THEN stack' = Pop /\ ret' = Top.beta
              ELSE /\ stack' = ReplaceTop([Top EXCEPT
                          !.pc = "loop",
                          !.i = @ + 1,
                          !.alpha = IF score > @ THEN score ELSE @])
                   /\ UNCHANGED ret
    /\ UNCHANGED << stop_search_, stop_iteration, nodes_since_time_check_, info_,
                    killer_moves_, sp, table_, stored_after_stop >>
    /\ UNCHANGED nodeFrame

\* Search::stop, called by another thread
Stop ==
    /\ stop_search_' = TRUE
    /\ stop_iteration' = IF ~stop_search_ /\ sp.pc = "in_root" THEN sp.depth
                         ELSE stop_iteration
    /\ UNCHANGED << posVars, ttVars, uciVars, nodes_since_time_check_, info_,
                    killer_moves_, max_depth_, allocated_time_ms_, deadline_passed,
                    search_position, sp, stack, ret, returned_move, found_move,
                    searches, completed, stored_after_stop >>

\* the allocated time elapses during a search
Tick ==
    /\ sp.pc \in {"iterate", "in_root"}
    /\ allocated_time_ms_ > 0
    /\ deadline_passed' = TRUE
    /\ UNCHANGED << posVars, ttVars, uciVars, stop_search_, nodes_since_time_check_,
                    info_, killer_moves_, max_depth_, allocated_time_ms_,
                    search_position, sp, stack, ret, returned_move, found_move,
                    searches, stop_iteration, completed, stored_after_stop >>

\* the caller makes a move on the position it will have searched, as
\* handle_position does for the moves of a position command
PlayMove ==
    /\ sp.pc = "idle"
    /\ Len(pos.move_history_) < MaxPlayed
    /\ \E move \in Range(generate_legal_moves(pos)) :
          /\ << move.from_square, move.to_square >> \in PlayedMoves
          /\ pos' = make_move(pos, move)
    /\ UNCHANGED << failed_loads, ttVars, searchVars, uciVars >>

NextSearch ==
    \/ SetPosition \/ PlayMove \/ SetMaxDepth \/ FindBestMove \/ Iterate \/ AfterRoot
    \/ RootEnter \/ RootLoop \/ RootAfterChild
    \/ NegamaxEnter \/ NegamaxLoop \/ NegamaxAfterChild
    \/ QuiescenceEnter \/ QuiescenceLoop \/ QuiescenceAfterChild
    \/ Stop \/ Tick

SpecSearch == Init /\ [][NextSearch]_vars

(***************************************************************************)
(* unified_uci_interface.cpp: the command loop of run and the thread that  *)
(* handle_go starts.  A step of the loop is a handler up to the next join  *)
(* of search_thread_; the thread takes its own steps in between.  The call *)
(* of find_best_move is one step that ends by the depth cap, by the        *)
(* deadline, or, when Search::stop_search_ is set, by the stop.            *)
(***************************************************************************)
\* the go commands read: go depth 1, go movetime 100, go infinite,
\* go perft 3, go analyze
GoKinds == {"depth", "movetime", "infinite", "perft", "analyze"}
\* the go commands the loop reads
MaxGo == 2
\* the commands other than go the loop reads
MaxCommands == 2
\* the lines the loop reads in all
MaxLines == 3
\* the iterations of a search of the thread that print their line
MaxIterations == 1

\* a join that returns at once
Joined_NoWait == TRUE
\* std::thread::join returns once the thread has run to its end
Joined == thread.joinable => thread.pc = "finished"

\* the searching state of go command g
SetGoState(g, state) == [gos EXCEPT ![g].state = state]

\* send_bestmove, send_info, send_info_string and the readyok line
send_bestmove_Silent(out, g) == out
send_bestmove_First(out, g) == << << "bestmove", g >> >> \o out
send_bestmove(out, g) == Append(out, << "bestmove", g >>)
\* the  info depth ...  line of print_search_info
print_search_info(out, g) == Append(out, << "info", g >>)
send_info(out, g) == Append(out, << "info", g >>)
send_info_string(out, g) == Append(out, << "string", g >>)

\* what no step of the command loop or of the search thread changes, and what a
\* step of the command loop outside handle_position leaves alone
engineFrame == << variantVars, failed_loads, ttVars, nodes_since_time_check_, info_, killer_moves_,
                  allocated_time_ms_, deadline_passed, sp, stack, ret,
                  returned_move, found_move, searches, stop_iteration, completed,
                  stored_after_stop >>
loopFrame == << tokens, search_position, engineFrame >>

\* a command other than go is read
ReadCommand ==
    /\ loop.pc = "read"
    /\ commands < MaxCommands
    /\ commands + Len(gos) < MaxLines
    /\ commands' = commands + 1

\* handle_uci, handle_uciplus
HandleUci ==
    /\ ReadCommand
    /\ \E plus \in BOOLEAN : uci_plus_mode_' = plus
    /\ UNCHANGED << pos, searching_, uci_stop_search_, loop, thread, gos, output,
                    stop_search_, max_depth_, loopFrame >>

\* handle_isready up to the join
HandleIsready ==
    /\ ReadCommand
    /\ loop' = [loop EXCEPT !.pc = "isready_join"]
    /\ UNCHANGED << pos, uci_plus_mode_, searching_, uci_stop_search_, thread, gos,
                    output, stop_search_, max_depth_, loopFrame >>

\* handle_isready from the join on
IsreadyJoin ==
    /\ loop.pc = "isready_join"
    /\ Joined
    /\ thread' = [thread EXCEPT !.joinable = FALSE]
    /\ output' = Append(output, << "readyok", 0 >>)
    /\ loop' = [loop EXCEPT !.pc = "read"]
    /\ UNCHANGED << pos, uci_plus_mode_, searching_, uci_stop_search_, gos, commands,
                    stop_search_, max_depth_, loopFrame >>

\* handle_ucinewgame up to the join, or to its end when no search runs
HandleUcinewgame ==
    /\ ReadCommand
    /\ IF searching_
       THEN /\ uci_stop_search_' = TRUE
            /\ loop' = [loop EXCEPT !.pc = "newgame_join"]
            /\ UNCHANGED pos
       ELSE /\ pos' = NewPosition
            /\ UNCHANGED << uci_stop_search_, loop >>
    /\ UNCHANGED << uci_plus_mode_, searching_, thread, gos, output, stop_search_,
                    max_depth_, loopFrame >>

\* handle_ucinewgame from the join on
UcinewgameJoin ==
    /\ loop.pc = "newgame_join"
    /\ Joined
    /\ thread' = [thread EXCEPT !.joinable = FALSE]
    /\ pos' = NewPosition
    /\ loop' = [loop EXCEPT !.pc = "read"]
    /\ UNCHANGED << uci_plus_mode_, searching_, uci_stop_search_, gos, commands, output,
                    stop_search_, max_depth_, loopFrame >>

\* parse_move: the legal move of p a move string names, or the null Move
FirstMatch(legal_moves, from, to, promotion_piece) ==
    LET matches == SelectSeq(legal_moves,
                       LAMBDA move :
                           /\ move.from_square = from
                           /\ move.to_square = to
                           /\ IF move.move_type = "Promotion"
                              THEN move.promotion_piece = promotion_piece
                              ELSE promotion_piece = PieceNone)
    IN  IF matches = << >> THEN NullMove ELSE matches[1]

PromotionChars == << "q", "r", "b", "n" >>
PromotionTypes == << Queen, Rook, Bishop, Knight >>

parse_move_among(move_str, color, legal_moves) ==
    IF Len(move_str) < 4 THEN NullMove
    ELSE IF \/ string_to_square(SubSeq(move_str, 1, 2)) = SquareNone
            \/ string_to_square(SubSeq(move_str, 3, 4)) = SquareNone
    THEN NullMove
    ELSE IF Len(move_str) = 5 /\ ~InSeq(ToLower(move_str[5]), PromotionChars)
    THEN NullMove
    ELSE FirstMatch(legal_moves,
                    string_to_square(SubSeq(move_str, 1, 2)),
                    string_to_square(SubSeq(move_str, 3, 4)),
                    IF Len(move_str) = 5
                    THEN make_piece(color,
                                    PromotionTypes[IndexOf(ToLower(move_str[5]),
                                                           PromotionChars)])
                    ELSE PieceNone)

parse_move(move_str, p) ==
    parse_move_among(move_str, p.side_to_move_, generate_legal_moves(p))

\* the position commands the loop reads: what follows the word position, and
\* the tokens after the word moves
E2E4 == << "e", "2", "e", "4" >>
E2E5 == << "e", "2", "e", "5" >>
E7E5 == << "e", "7", "e", "5" >>
PositionCommands ==
    { [start |-> "startpos", fen |-> << >>, moves |-> << E2E4 >>],
      [start |-> "startpos", fen |-> << >>, moves |-> << E2E4, E2E5, E7E5 >>],
      [start |-> "fen", fen |-> SearchFen, moves |-> << >>],
      [start |-> "fen", fen |-> BadPieceFen, moves |-> << E2E4 >>] }

\* handle_position up to its loop over the moves: r is what the first part of
\* the command made of current_position_
PositionParsed(r, moves) ==
    /\ pos' = r.pos
    /\ IF r.ok
       THEN /\ tokens' = moves
            /\ loop' = [loop EXCEPT !.pc = IF moves = << >> THEN "read" ELSE "moves"]
            /\ UNCHANGED output
       ELSE /\ output' = Append(output, << "string", "Invalid FEN string" >>)
            /\ UNCHANGED << tokens, loop >>

HandlePosition ==
    /\ ReadCommand
    /\ \E command \in PositionCommands :
          PositionParsed(IF command.start = "startpos"
                         THEN [ok |-> TRUE, pos |-> NewPosition]
                         ELSE load_fen(pos, command.fen),
                         command.moves)
    /\ UNCHANGED << uci_plus_mode_, searching_, uci_stop_search_, thread, gos,
                    stop_search_, max_depth_, search_position, engineFrame >>

\* one turn of the loop of handle_position over the moves, `move` being what
\* parse_move made of the next token
PositionMoveParsed_Skips(move) ==
    IF move.from_square = SquareNone
    THEN /\ output' = Append(output, << "string", "Invalid move", Head(tokens) >>)
         /\ tokens' = Tail(tokens)
         /\ loop' = [loop EXCEPT !.pc = IF Tail(tokens) = << >> THEN "read" ELSE "moves"]
         /\ UNCHANGED pos
    ELSE /\ pos' = make_move(pos, move)
         /\ tokens' = Tail(tokens)
         /\ loop' = [loop EXCEPT !.pc = IF Tail(tokens) = << >> THEN "read" ELSE "moves"]
         /\ UNCHANGED output

PositionMoveParsed(move) ==
    IF move.from_square = SquareNone
    THEN /\ output' = Append(output, << "string", "Invalid move", Head(tokens) >>)
         /\ tokens' = << >>
         /\ loop' = [loop EXCEPT !.pc = "read"]
         /\ UNCHANGED pos
    ELSE /\ pos' = make_move(pos, move)
         /\ tokens' = Tail(tokens)
         /\ loop' = [loop EXCEPT !.pc = IF Tail(tokens) = << >> THEN "read" ELSE "moves"]
         /\ UNCHANGED output

PositionMove ==
    /\ loop.pc = "moves"
    /\ PositionMoveParsed(parse_move(Head(tokens), pos))
    /\ UNCHANGED << uci_plus_mode_, searching_, uci_stop_search_, thread, gos, commands,
                    stop_search_, max_depth_, search_position, engineFrame >>

\* handle_stop
\* the steps of the search thread before its bestmove line is written
BeforeBestmove == {"started", "copying", "copied", "searching", "send_info", "send_bestmove"}

\* a stop command is read: gos records that the go command whose bestmove is
\* yet to come was stopped
HandleStop ==
    /\ ReadCommand
    /\ IF searching_
       THEN uci_stop_search_' = TRUE /\ stop_search_' = TRUE
       ELSE UNCHANGED << uci_stop_search_, stop_search_ >>
    /\ gos' = IF searching_ /\ thread.pc \in BeforeBestmove
              THEN [gos EXCEPT ![thread.go].stopped = TRUE] ELSE gos
    /\ UNCHANGED << pos, uci_plus_mode_, searching_, loop, thread, output,
                    max_depth_, loopFrame >>

\* the depth handle_go gives to Engine::set_max_depth
GoDepth(kind) == IF kind = "depth" THEN 1 ELSE 0

\* handle_go after the search that ran has been joined: the parameters are
\* parsed, and the depth is set
ParseGo(kind) ==
    max_depth_' = IF GoDepth(kind) > 0 THEN set_max_depth(GoDepth(kind)) ELSE max_depth_

\* a go command is read: handle_go_extended in UCI+ mode, which returns at
\* go perft and go analyze, and handle_go up to its first join
HandleGo ==
    /\ loop.pc = "read"
    /\ Len(gos) < MaxGo
    /\ commands + Len(gos) < MaxLines
    /\ \E kind \in GoKinds :
          LET g == Len(gos) + 1
              extended == uci_plus_mode_ /\ kind \in {"perft", "analyze"}
          IN  /\ gos' = Append(gos, [kind |-> kind, plus |-> uci_plus_mode_,
                                     state |-> IF extended THEN "returned" ELSE "handled",
                                     ended |-> "none", position |-> pos,
                                     stopped |-> FALSE])
              /\ IF extended
                 THEN /\ output' = send_info_string(output, g)
                      /\ UNCHANGED << uci_stop_search_, stop_search_, max_depth_, loop >>
                 ELSE IF searching_
                 THEN /\ uci_stop_search_' = TRUE
                      /\ stop_search_' = TRUE
                      /\ loop' = [pc |-> "go_join", go |-> g]
                      /\ UNCHANGED << output, max_depth_ >>
                 ELSE /\ ParseGo(kind)
                      /\ loop' = [pc |-> "go_start", go |-> g]
                      /\ UNCHANGED << output, uci_stop_search_, stop_search_ >>
    /\ UNCHANGED << pos, uci_plus_mode_, searching_, thread, commands, loopFrame >>

\* handle_go from the join of the search that ran to the join before the start
GoJoin ==
    /\ loop.pc = "go_join"
    /\ Joined
    /\ thread' = [thread EXCEPT !.joinable = FALSE]
    /\ searching_' = FALSE
    /\ ParseGo(gos[loop.go].kind)
    /\ loop' = [loop EXCEPT !.pc = "go_start"]
    /\ UNCHANGED << pos, uci_plus_mode_, uci_stop_search_, gos, commands, output,
                    stop_search_, loopFrame >>

\* handle_go from its last join on: the thread is started
GoStart ==
    /\ loop.pc = "go_start"
    /\ Joined
    /\ uci_stop_search_' = FALSE
    /\ searching_' = TRUE
    /\ thread' = [pc |-> "started", go |-> loop.go, joinable |-> TRUE, depth |-> 0]
    /\ gos' = SetGoState(loop.go, "searching")
    /\ loop' = [pc |-> "read", go |-> 0]
    /\ UNCHANGED << pos, uci_plus_mode_, commands, output, stop_search_, max_depth_,
                    loopFrame >>

\* handle_quit up to its join; the loop ends
HandleQuit ==
    /\ ReadCommand
    /\ uci_stop_search_' = (uci_stop_search_ \/ searching_)
    /\ loop' = [loop EXCEPT !.pc = IF searching_ THEN "quit_join" ELSE "destructor"]
    /\ UNCHANGED << pos, uci_plus_mode_, searching_, thread, gos, output, stop_search_,
                    max_depth_, loopFrame >>

QuitJoin ==
    /\ loop.pc = "quit_join"
    /\ Joined
    /\ thread' = [thread EXCEPT !.joinable = FALSE]
    /\ loop' = [loop EXCEPT !.pc = "destructor"]
    /\ UNCHANGED << pos, uci_plus_mode_, searching_, uci_stop_search_, gos, commands,
                    output, stop_search_, max_depth_, loopFrame >>

\* std::getline finds the end of the input; the loop ends
EndOfInput ==
    /\ loop.pc = "read"
    /\ loop' = [loop EXCEPT !.pc = "destructor"]
    /\ UNCHANGED << pos, uci_plus_mode_, searching_, uci_stop_search_, thread, gos,
                    commands, output, stop_search_, max_depth_, loopFrame >>

\* ~UnifiedUCIInterface up to its join
Destructor ==
    /\ loop.pc = "destructor"
    /\ IF searching_
       THEN uci_stop_search_' = TRUE /\ stop_search_' = TRUE
       ELSE UNCHANGED << uci_stop_search_, stop_search_ >>
    /\ loop' = [loop EXCEPT !.pc = "destructor_join"]
    /\ UNCHANGED << pos, uci_plus_mode_, searching_, thread, gos, commands, output,
                    max_depth_, loopFrame >>

DestructorJoin ==
    /\ loop.pc = "destructor_join"
    /\ Joined
    /\ thread' = [thread EXCEPT !.joinable = FALSE]
    /\ loop' = [loop EXCEPT !.pc = "exited"]
    /\ UNCHANGED << pos, uci_plus_mode_, searching_, uci_stop_search_, gos, commands,
                    output, stop_search_, max_depth_, loopFrame >>

\* what a step of the search thread leaves alone
threadFrame == << pos, uci_plus_mode_, uci_stop_search_, loop, commands, max_depth_,
                  tokens, engineFrame >>

\* the members of a Position that hold the pieces, and the others
BoardMembers == {"pieces_", "occupied_by_color_", "occupied_", "board_"}
StateMembers == DOMAIN BlankPosition \ BoardMembers

\* `into` after the members `members` of `from` have been copied to it
CopyMembers(into, from, members) ==
    [member \in DOMAIN into |-> IF member \in members THEN from[member] ELSE into[member]]

\* the thread's  Position search_position = current_position_  is a memberwise
\* copy the command loop is not kept from writing during: first the members that
\* hold the pieces are copied
ThreadCopyBoard ==
    /\ thread.pc = "started"
    /\ search_position' = CopyMembers(search_position, pos, BoardMembers)
    /\ thread' = [thread EXCEPT !.pc = "copying"]
    /\ UNCHANGED << searching_, gos, output, stop_search_, threadFrame >>

\* then the other members
ThreadCopyState ==
    /\ thread.pc = "copying"
    /\ search_position' = CopyMembers(search_position, pos, StateMembers)
    /\ thread' = [thread EXCEPT !.pc = "copied"]
    /\ UNCHANGED << searching_, gos, output, stop_search_, threadFrame >>

\* the thread from its copy into search_position, which clears the flag
ThreadEnterSearch ==
    /\ thread.pc = "copied"
    /\ stop_search_' = FALSE
    /\ thread' = [thread EXCEPT !.pc = "searching"]
    /\ UNCHANGED << searching_, gos, output, search_position, threadFrame >>

\* an iteration of search_position ends with the stop flag clear, and prints
\* its line
ThreadPrintSearchInfo ==
    /\ thread.pc = "searching"
    /\ ~stop_search_
    /\ thread.depth < MaxIterations
    /\ output' = print_search_info(output, thread.go)
    /\ thread' = [thread EXCEPT !.depth = @ + 1]
    /\ UNCHANGED << searching_, gos, stop_search_, search_position, threadFrame >>

\* find_best_move returns
ThreadSearchEnds ==
    /\ thread.pc = "searching"
    /\ \E ended \in {"depth_cap", "deadline"} \cup (IF stop_search_ THEN {"stop"} ELSE {}) :
          gos' = [gos EXCEPT ![thread.go].ended = ended]
    /\ thread' = [thread EXCEPT !.pc = "send_info"]
    /\ UNCHANGED << searching_, output, stop_search_, search_position, threadFrame >>

ThreadSendInfo ==
    /\ thread.pc = "send_info"
    /\ output' = send_info(output, thread.go)
    /\ thread' = [thread EXCEPT !.pc = "send_bestmove"]
    /\ UNCHANGED << searching_, gos, stop_search_, search_position, threadFrame >>

ThreadSendBestmove ==
    /\ thread.pc = "send_bestmove"
    /\ output' = send_bestmove(output, thread.go)
    /\ thread' = [thread EXCEPT !.pc = "clear_searching"]
    /\ UNCHANGED << searching_, gos, stop_search_, search_position, threadFrame >>

\* searching_ = false, and the end of the thread
ThreadFinish ==
    /\ thread.pc = "clear_searching"
    /\ searching_' = FALSE
    /\ gos' = SetGoState(thread.go, "returned")
    /\ thread' = [thread EXCEPT !.pc = "finished"]
    /\ UNCHANGED << output, stop_search_, search_position, threadFrame >>

NextUCI ==
    \/ HandleUci \/ HandleIsready \/ IsreadyJoin \/ HandleUcinewgame \/ UcinewgameJoin
    \/ HandlePosition \/ PositionMove
    \/ HandleStop \/ HandleGo \/ GoJoin \/ GoStart \/ HandleQuit \/ QuitJoin
    \/ EndOfInput \/ Destructor \/ DestructorJoin
    \/ ThreadCopyBoard \/ ThreadCopyState \/ ThreadEnterSearch \/ ThreadPrintSearchInfo \/ ThreadSearchEnds \/ ThreadSendInfo \/ ThreadSendBestmove
    \/ ThreadFinish

SpecUCI == Init /\ [][NextUCI]_vars

(***************************************************************************)
(* variant_position.cpp, variant_rules.cpp, rule_engine.cpp: a              *)
(* VariantPosition on the Position pos, and the RuleEngine it may be given.*)
(***************************************************************************)
D4 == 27
E4 == 28
D5 == 35
E5 == 36

hill_squares_ == {D4, D5, E4, E5}

is_king_on_hill_Never(p, color) == FALSE
is_king_on_hill(p, color) == king_square(p, color) \in hill_squares_

\* RuleEngine::load_variant, RuleEngine::has_rule
load_variant(variant_name) == variant_name = "king_of_the_hill"
has_rule(rule_name, koth) == rule_name = "king_of_the_hill" /\ koth

\* game_result_ after VariantPosition::make_move has made its move and p is
\* the position reached
ResultAfterMove(p, engine, koth, result) ==
    IF engine /\ has_rule("king_of_the_hill", koth)
    THEN IF is_king_on_hill(p, White) THEN "WhiteWins"
         ELSE IF is_king_on_hill(p, Black) THEN "BlackWins"
         ELSE result
    ELSE result

is_game_over(result) == result # "None"

\* VariantPosition::generate_legal_moves
VariantPosition_generate_legal_moves(p) == generate_legal_moves(p)

\* positions with a king next to the hill
WhiteHillFen ==
    << << "7", "k", "/", "8", "/", "8", "/", "8", "/", "8", "/", "3", "K", "4", "/", "P", "7", "/", "8" >>,
       << "w" >>,
       << "-" >>,
       << "-" >>,
       << "0" >>,
       << "1" >> >>
BlackHillFen ==
    << << "8", "/", "8", "/", "3", "k", "4", "/", "8", "/", "8", "/", "8", "/", "P", "7", "/", "K", "7" >>,
       << "b" >>,
       << "-" >>,
       << "-" >>,
       << "0" >>,
       << "1" >> >>
HillFens == {WhiteHillFen, BlackHillFen}
VariantNames == {"standard", "king_of_the_hill"}

variantFrame == << failed_loads, ttVars, searchVars, uci_plus_mode_, searching_,
                   uci_stop_search_, loop, thread, gos, commands, output, tokens >>

\* the owner of the Position loads a position into it
VariantLoadFen ==
    /\ \E fen \in HillFens : pos' = load_fen(pos, fen).pos
    /\ UNCHANGED << variantVars, variantFrame >>

\* VariantPosition::set_rule_engine
SetRuleEngine ==
    /\ \E engine \in BOOLEAN : rule_engine_' = engine
    /\ UNCHANGED << pos, koth_active_, game_result_, variantFrame >>

\* RuleEngine::load_variant
LoadVariant ==
    /\ \E variant_name \in VariantNames : koth_active_' = load_variant(variant_name)
    /\ UNCHANGED << pos, rule_engine_, game_result_, variantFrame >>

\* VariantPosition::make_move
VariantMakeMoveOf(after) ==
    /\ pos' = after
    /\ game_result_' = ResultAfterMove(after, rule_engine_, koth_active_, game_result_)

VariantMakeMove ==
    /\ Len(pos.move_history_) < MaxHistory
    /\ \E move \in Range(VariantPosition_generate_legal_moves(pos)) :
          VariantMakeMoveOf(make_move(pos, move))
    /\ UNCHANGED << rule_engine_, koth_active_, variantFrame >>

\* VariantPosition::reset
VariantReset ==
    /\ pos' = NewPosition
    /\ game_result_' = "None"
    /\ UNCHANGED << rule_engine_, koth_active_, variantFrame >>

NextVariant ==
    VariantLoadFen \/ SetRuleEngine \/ LoadVariant \/ VariantMakeMove \/ VariantReset

SpecVariant == Init /\ [][NextVariant]_vars

(***************************************************************************)
(* tests.cpp: the perft of test_game_scenarios, the leaves of the tree of  *)
(* generate_legal_moves and make_move, and its six positions.              *)
(***************************************************************************)
KiwipeteFen ==
    << << "r", "3", "k", "2", "r", "/", "p", "1", "p", "p", "q", "p", "b", "1", "/", "b", "n", "2", "p", "n", "p", "1", "/", "3", "P", "N", "3", "/", "1", "p", "2", "P", "3", "/", "2", "N", "2", "Q", "1", "p", "/", "P", "P", "P", "B", "B", "P", "P", "P", "/", "R", "3", "K", "2", "R" >>,
       << "w" >>,
       << "K", "Q", "k", "q" >>,
       << "-" >>,
       << "0" >>,
       << "1" >> >>

PerftFen3 ==
    << << "8", "/", "2", "p", "5", "/", "3", "p", "4", "/", "K", "P", "5", "r", "/", "1", "R", "3", "p", "1", "k", "/", "8", "/", "4", "P", "1", "P", "1", "/", "8" >>,
       << "w" >>,
       << "-" >>,
       << "-" >>,
       << "0" >>,
       << "1" >> >>

PerftFen4 ==
    << << "r", "3", "k", "2", "r", "/", "P", "p", "p", "p", "1", "p", "p", "p", "/", "1", "b", "3", "n", "b", "N", "/", "n", "P", "6", "/", "B", "B", "P", "1", "P", "3", "/", "q", "4", "N", "2", "/", "P", "p", "1", "P", "2", "P", "P", "/", "R", "2", "Q", "1", "R", "K", "1" >>,
       << "w" >>,
       << "k", "q" >>,
       << "-" >>,
       << "0" >>,
       << "1" >> >>

PerftFen5 ==
    << << "r", "n", "b", "q", "1", "k", "1", "r", "/", "p", "p", "1", "P", "b", "p", "p", "p", "/", "2", "p", "5", "/", "8", "/", "2", "B", "5", "/", "8", "/", "P", "P", "P", "1", "N", "n", "P", "P", "/", "R", "N", "B", "Q", "K", "2", "R" >>,
       << "w" >>,
       << "K", "Q" >>,
       << "-" >>,
       << "1" >>,
       << "8" >> >>

PerftFen6 ==
    << << "r", "4", "r", "k", "1", "/", "1", "p", "p", "1", "q", "p", "p", "p", "/", "p", "1", "n", "p", "1", "n", "2", "/", "2", "b", "1", "p", "1", "B", "1", "/", "2", "B", "1", "P", "1", "b", "1", "/", "P", "1", "N", "P", "1", "N", "2", "/", "1", "P", "P", "1", "Q", "P", "P", "P", "/", "R", "4", "R", "K", "1" >>,
       << "w" >>,
       << "-" >>,
       << "-" >>,
       << "0" >>,
       << "1", "0" >> >>

PerftFens == << StartFen, KiwipeteFen, PerftFen3, PerftFen4, PerftFen5, PerftFen6 >>

\* the expected counts of the six positions at depths 1 to 5
PerftCounts ==
    << << 20, 400, 8902, 197281, 4865609 >>,
       << 48, 2039, 97862, 4085603, 193690690 >>,
       << 14, 191, 2812, 43238, 674624 >>,
       << 6, 264, 9467, 422333, 15833292 >>,
       << 44, 1486, 62379, 2103487, 89941194 >>,
       << 46, 2079, 89890, 3894594, 164075551 >> >>

\* the depths the counts are compared at
PerftDepth == 3
\* the moves made from a perft position
PerftWalk == 1

\* the sum of counts[lo], ..., counts[hi]
RECURSIVE SumRange(_, _, _)
SumRange(counts, lo, hi) ==
    IF lo > hi THEN 0
    ELSE IF lo = hi THEN counts[lo]
    ELSE SumRange(counts, lo, (lo + hi) \div 2) + SumRange(counts, (lo + hi) \div 2 + 1, hi)

\* the lambda perft of the tests
RECURSIVE perft(_, _)
PerftOver(position, moves, depth) ==
    SumRange([i \in 1 .. Len(moves) |-> perft(make_move(position, moves[i]), depth - 1)],
             1, Len(moves))

perft(position, depth) ==
    IF depth = 0 THEN 1
    ELSE PerftOver(position, generate_legal_moves(position), depth)

perftFrame == << failed_loads, ttVars, searchVars, uciVars >>

\* pos.load_fen of one of the six positions
PerftLoadFen ==
    /\ \E k \in 1 .. Len(PerftFens) : pos' = load_fen(pos, PerftFens[k]).pos
    /\ UNCHANGED perftFrame

\* a move of the tree is made
PerftMakeMove ==
    /\ Len(pos.move_history_) < PerftWalk
    /\ \E move \in Range(generate_legal_moves(pos)) : pos' = make_move(pos, move)
    /\ UNCHANGED perftFrame

NextPerft == PerftLoadFen \/ PerftMakeMove

SpecPerft == Init /\ [][NextPerft]_vars

(***************************************************************************)
(* Chess geometry on the mailbox board, stated without the bitboards: what *)
(* the properties of the move generator are measured against.              *)
(***************************************************************************)
Sign(n) == IF n > 0 THEN 1 ELSE IF n < 0 THEN -1 ELSE 0

\* the squares strictly between two squares of a common line
Between(from, to) ==
    LET df == file_of(to) - file_of(from)
        dr == rank_of(to) - rank_of(from)
        n == IF Abs(df) > Abs(dr) THEN Abs(df) ELSE Abs(dr)
    IN  {make_square(file_of(from) + k * Sign(df), rank_of(from) + k * Sign(dr)) :
            k \in 1 .. (n - 1)}

\* the piece on `from` attacks `to` on board brd, by the rules of chess
Attacks(brd, from, to) ==
    LET piece == brd[from]
        df == file_of(to) - file_of(from)
        dr == rank_of(to) - rank_of(from)
        clear == \A sq \in Between(from, to) : brd[sq] = PieceNone
        diagonal == Abs(df) = Abs(dr) /\ df # 0
        straight == (df = 0) # (dr = 0)
    IN  /\ piece # PieceNone
        /\ CASE type_of(piece) = Pawn ->
                  Abs(df) = 1 /\ dr = (IF color_of(piece) = White THEN 1 ELSE -1)
             [] type_of(piece) = Knight ->
                  {Abs(df), Abs(dr)} = {1, 2}
             [] type_of(piece) = Bishop -> diagonal /\ clear
             [] type_of(piece) = Rook -> straight /\ clear
             [] type_of(piece) = Queen -> (diagonal \/ straight) /\ clear
             [] type_of(piece) = King ->
                  Abs(df) <= 1 /\ Abs(dr) <= 1 /\ from # to

AttackedBy(brd, square, color) ==
    \E from \in Squares :
        brd[from] # PieceNone /\ color_of(brd[from]) = color /\ Attacks(brd, from, square)

\* the squares of the kings of `color` on board brd
KingSquares(brd, color) == {sq \in Squares : brd[sq] = make_piece(color, King)}

Us == pos.side_to_move_
Them == opposite_color(pos.side_to_move_)

(***************************************************************************)
(* Properties of the Position.                                             *)
(***************************************************************************)
\* what make_move followed by undo_move leaves of the position after `move`
RoundTrip(move) == undo_move(make_move(pos, move))

\* q has the FEN `fen` and the fields of p
SameFields(q, p, fen) ==
    /\ to_fen(q) = fen
    /\ q.hash_key_ = p.hash_key_
    /\ q.castling_rights_ = p.castling_rights_
    /\ q.en_passant_square_ = p.en_passant_square_
    /\ q.halfmove_clock_ = p.halfmove_clock_
    /\ q.fullmove_number_ = p.fullmove_number_
    /\ q.side_to_move_ = p.side_to_move_
    /\ q.board_ = p.board_
    /\ q.pieces_ = p.pieces_
    /\ Len(q.move_history_) = Len(p.move_history_)

\* C1: in every reachable position, make_move of any legal move followed by
\* undo_move gives back the FEN, hash key, castling rights, en passant square,
\* both clocks, side to move, mailbox, piece bitboards and history length.
C1_MakeUndoRoundTrip ==
    LET legal == generate_legal_moves(pos)
        fen == to_fen(pos)
    IN  \A i \in 1 .. Len(legal) : SameFields(RoundTrip(legal[i]), pos, fen)

\* a position reached by a legal move in which an en passant capture is legal
\* and is taken back exactly
C1_Witness ==
    /\ Len(pos.move_history_) > 0
    /\ LET legal == generate_legal_moves(pos)
       IN  \E i \in 1 .. Len(legal) :
              /\ legal[i].move_type = "EnPassant"
              /\ make_move(pos, legal[i]) # pos
              /\ SameFields(RoundTrip(legal[i]), pos, to_fen(pos))

C3_MailboxMatchesBitboards ==
    \A sq \in Squares :
        \A c \in Colors : \A pt \in PieceTypes :
            (sq \in pos.pieces_[c][pt]) <=> (pos.board_[sq] = make_piece(c, pt))

\* a position after a capture: the captured piece has left both the mailbox and
\* its bitboard
C3_Witness ==
    /\ Len(pos.move_history_) > 0
    /\ pos.move_history_[Len(pos.move_history_)].captured_piece # PieceNone
    /\ C3_MailboxMatchesBitboards

\* C4: no move of generate_legal_moves leaves the mover's king on a square the
\* opponent attacks in the position after the move.
C4_LegalMovesKeepKingSafe ==
    LET legal == generate_legal_moves(pos)
    IN  \A i \in 1 .. Len(legal) :
           LET after == make_move(pos, legal[i]).board_
           IN  \A ksq \in KingSquares(after, Us) : ~AttackedBy(after, ksq, Them)

\* a position with legal moves in which the generator dropped a pseudo-legal
\* move because it leaves the king attacked
C4_Witness ==
    LET legal == generate_legal_moves(pos)
        pseudo_legal == generate_all_moves(pos, Us)
    IN  /\ legal # <<>>
        /\ \E i \in 1 .. Len(pseudo_legal) :
              LET after == make_move(pos, pseudo_legal[i]).board_
              IN  /\ \E ksq \in KingSquares(after, Us) : AttackedBy(after, ksq, Them)
                  /\ \A j \in 1 .. Len(legal) : ~MoveEq(legal[j], pseudo_legal[i])

\* the conditions of a castle of the king to square `to`, on the mailbox
CastleConditions(to) ==
    LET home == IF Us = White THEN E1 ELSE E8
        kingside == file_of(to) = 6
        corner == make_square(IF kingside THEN 7 ELSE 0, rank_of(home))
        right == IF Us = White THEN (IF kingside THEN White_OO ELSE White_OOO)
                 ELSE (IF kingside THEN Black_OO ELSE Black_OOO)
    IN  /\ pos.board_[home] = make_piece(Us, King)
        /\ ~AttackedBy(pos.board_, home, Them)
        /\ HasRight(pos.castling_rights_, right)
        /\ \A sq \in Between(home, corner) : pos.board_[sq] = PieceNone
        /\ \A sq \in Between(home, to) \cup {to} : ~AttackedBy(pos.board_, sq, Them)
        /\ pos.board_[corner] = make_piece(Us, Rook)
        /\ rank_of(to) = rank_of(home)
        /\ file_of(to) \in {2, 6}

\* C5: a Castle move is among the legal moves only if the side to move is not in
\* check, its king is on its home square, the right is set, the squares between
\* king and rook are empty, the squares the king crosses and reaches are not
\* attacked, and the rook is on its corner.
C5_CastleOnlyWhenAllowed ==
    LET legal == generate_legal_moves(pos)
    IN  \A i \in 1 .. Len(legal) :
           legal[i].move_type = "Castle" =>
               /\ legal[i].from_square = (IF Us = White THEN E1 ELSE E8)
               /\ CastleConditions(legal[i].to_square)

\* a position where the queenside castle is legal and the kingside castle, whose
\* right is set, is not
C5_Witness ==
    LET legal == generate_legal_moves(pos)
    IN  /\ \E i \in 1 .. Len(legal) :
              legal[i].move_type = "Castle" /\ file_of(legal[i].to_square) = 2
        /\ ~\E i \in 1 .. Len(legal) :
              legal[i].move_type = "Castle" /\ file_of(legal[i].to_square) = 6
        /\ HasRight(pos.castling_rights_, IF Us = White THEN White_OO ELSE Black_OO)

\* C6: load_fen of an invalid FEN returns false and leaves every field of the
\* Position as it was.
C6_InvalidFenLeavesPosition ==
    \A fen \in InvalidFens :
        /\ ~load_fen(pos, fen).ok
        /\ load_fen(pos, fen).pos = pos

\* C7: whatever the table holds and whatever the current age, a probe of a key
\* made right after a store of that key with the same ply succeeds and gives back
\* the score, depth, bound and best move that were stored.
C7_ProbeAfterStore ==
    \A key \in TTKeys, score \in TTScores, depth \in TTDepths,
       payload \in TTPayloads, ply \in TTPlies :
        LET stored == store(table_, current_age_, key, score, depth,
                            payload[1], payload[2], ply)
            r == probe(stored, key, ply, NoProbe)
        IN  /\ r.found
            /\ r.score = score
            /\ r.depth = depth
            /\ r.bound = payload[1]
            /\ MoveEq(r.best_move, payload[2])

\* the bestmove lines written for the g-th go command
BestmoveCount(g) == Cardinality({i \in 1 .. Len(output) : output[i] = << "bestmove", g >>})

\* C8: every go command the loop has handled gets exactly one bestmove line:
\* never two, and one once its handling and its search, if any, are over.
C8_OneBestmovePerGo ==
    \A g \in 1 .. Len(gos) :
        /\ BestmoveCount(g) <= 1
        /\ gos[g].state = "returned" => BestmoveCount(g) = 1

\* C9: a search stopped during iteration k returns the best move of iteration
\* k - 1, and one stopped during its first iteration returns the best root move
\* that iteration had found so far.
C9_StoppedSearchReturns ==
    (sp.pc = "done" /\ stop_iteration >= 1) =>
        IF stop_iteration >= 2
        THEN MoveEq(returned_move, completed[stop_iteration - 1])
        ELSE MoveEq(returned_move, sp.iteration_best_move)

\* C10: from the moment the stop flag is set until the search is over, negamax
\* makes no call of TranspositionTable::store.
C10_NoStoreAfterStop == ~stored_after_stop

\* the search thread has taken its copy of the command loop's Position
ThreadCopied ==
    thread.pc \in {"copied", "searching", "send_info", "send_bestmove",
                   "clear_searching", "finished"}

\* a step of the search thread
ThreadStep == thread'.pc # thread.pc /\ thread'.pc # "started"

\* C11: the position a search works on is the command loop's Position as it was
\* when the go command was handled, whatever the loop does to its Position
\* afterwards, and no step of the search thread changes the loop's Position.
C11_SearchesPositionOfGo ==
    [][/\ ThreadCopied' => search_position' = gos'[thread'.go].position
       /\ ThreadStep => pos' = pos]_vars

\* a step that ends the handling of ucinewgame
UcinewgameHandled ==
    \/ HandleUcinewgame /\ loop'.pc = "read"
    \/ UcinewgameJoin

\* C12: handling ucinewgame leaves the command loop's Position as it was, and
\* advances the age of the transposition table or clears the table.
C12_UcinewgameKeepsPosition ==
    [][UcinewgameHandled =>
          /\ pos' = pos
          /\ current_age_' = NextAge(current_age_) \/ table_' = ClearedTable]_vars

\* C13: when the position searched has a legal move, the move find_best_move
\* returns is one of its legal moves, whether the search took the opening
\* shortcut, completed iterations, or was stopped during its first iteration.
C13_FindBestMoveReturnsLegal ==
    (sp.pc = "done" /\ generate_legal_moves(pos) # << >>) =>
        \E move \in Range(generate_legal_moves(pos)) : move = found_move

\* a search stopped during its first iteration: search_position returned the
\* null Move and find_best_move fell back to a legal move
C13_Witness ==
    /\ sp.pc = "done"
    /\ stop_iteration = 1
    /\ returned_move.from_square = SquareNone
    /\ found_move.from_square # SquareNone

CastlingBits == {White_OO, White_OOO, Black_OO, Black_OOO}

\* the bit of the castling right lost when a move starts from or lands on a
\* corner square
CornerBit(square) ==
    IF square = A1 THEN {White_OOO}
    ELSE IF square = H1 THEN {White_OO}
    ELSE IF square = A8 THEN {Black_OOO}
    ELSE IF square = H8 THEN {Black_OO}
    ELSE {}

\* the rights of mask `rights`
RightsOf(rights) == {bit \in CastlingBits : HasRight(rights, bit)}

\* C14: a make_move sets no castling right; it clears both rights of a colour
\* whose king moves and the right of a corner square the move starts from or
\* lands on; the move records the mask it found, and undo_move puts it back.
C14_CastlingRightsOnlyLost ==
    \A move \in Range(generate_legal_moves(pos)) :
        LET after == make_move(pos, move)
            mover == pos.board_[move.from_square]
        IN  /\ RightsOf(after.castling_rights_) \subseteq RightsOf(pos.castling_rights_)
            /\ mover = make_piece(White, King) =>
                   RightsOf(after.castling_rights_) \cap {White_OO, White_OOO} = {}
            /\ mover = make_piece(Black, King) =>
                   RightsOf(after.castling_rights_) \cap {Black_OO, Black_OOO} = {}
            /\ RightsOf(after.castling_rights_)
                   \cap (CornerBit(move.from_square) \cup CornerBit(move.to_square)) = {}
            /\ after.move_history_[Len(after.move_history_)].previous_castling_rights
                   = pos.castling_rights_
            /\ undo_move(after).castling_rights_ = pos.castling_rights_

\* a position reached by a move that took a castling right away
C14_Witness ==
    /\ pos.move_history_ # << >>
    /\ RightsOf(pos.castling_rights_) #
           RightsOf(pos.move_history_[Len(pos.move_history_)].previous_castling_rights)

\* C15: after a make_move the en-passant square is the square a pawn crossed
\* when the move was a pawn's advance of two ranks, and None after any other
\* move, whatever it was before.
C15_EnPassantOnlyAfterDoublePush ==
    \A move \in Range(generate_legal_moves(pos)) :
        LET after == make_move(pos, move)
            mover == pos.board_[move.from_square]
            double == /\ type_of(mover) = Pawn
                      /\ file_of(move.to_square) = file_of(move.from_square)
                      /\ rank_of(move.to_square) - rank_of(move.from_square) \in {2, -2}
        IN  IF double
            THEN after.en_passant_square_ =
                     make_square(file_of(move.from_square),
                                 (rank_of(move.from_square) + rank_of(move.to_square)) \div 2)
            ELSE after.en_passant_square_ = SquareNone

\* a position with an en-passant square set by the double push just made, from
\* which some move can be made
C15_Witness ==
    /\ pos.move_history_ # << >>
    /\ pos.en_passant_square_ # SquareNone
    /\ generate_legal_moves(pos) # << >>

\* a move in the long algebraic notation of the protocol
UciMoveString(move) ==
    square_to_string(move.from_square) \o square_to_string(move.to_square)
    \o (IF move.move_type = "Promotion"
        THEN << ToLower(PieceChars[type_of(move.promotion_piece) + 1]) >>
        ELSE << >>)

\* the token is the notation of a legal move of p
NamesLegalMove(token, p) ==
    \E move \in Range(generate_legal_moves(p)) : UciMoveString(move) = token

\* C16: when the next move token of a position command names no legal move of
\* the position reached so far, handle_position writes the line
\* info string Invalid move: <token>, leaves the Position with the moves before
\* the token applied, reads no further token of the command, and the loop goes
\* on to read the next command.
C16_InvalidMoveStopsCommand ==
    [][(loop.pc = "moves" /\ tokens' # tokens /\ ~NamesLegalMove(Head(tokens), pos)) =>
          /\ output' = Append(output, << "string", "Invalid move", Head(tokens) >>)
          /\ pos' = pos
          /\ tokens' = << >>
          /\ loop'.pc = "read"]_vars

\* position startpos moves e2e4 e2e5 e7e5 has been handled: e2e4 is applied,
\* e2e5 is reported, e7e5 is not applied
C16_Witness ==
    /\ loop.pc = "read"
    /\ tokens = << >>
    /\ \E i \in 1 .. Len(output) : output[i] = << "string", "Invalid move", E2E5 >>
    /\ Len(pos.move_history_) = 1
    /\ UciMoveString(pos.move_history_[1]) = E2E4

\* the kings of a colour that stand on one of D4, D5, E4, E5, on the mailbox
KingOnHill(p, color) == \E sq \in {D4, D5, E4, E5} : p.board_[sq] = make_piece(color, King)

\* the result that is a win of a colour
WinOf(color) == IF color = White THEN "WhiteWins" ELSE "BlackWins"

\* C17: with a rule engine attached and king_of_the_hill active, the result
\* after a VariantPosition::make_move is the win of a colour whose king stands
\* on D4, D5, E4 or E5, and the game is over; with the rule inactive or no rule
\* engine, a make_move leaves a result of None at None.
C17_KingOfTheHillWins ==
    [][Len(pos'.move_history_) = Len(pos.move_history_) + 1 =>
          IF rule_engine_ /\ koth_active_
          THEN \A color \in {White, Black} :
                  KingOnHill(pos', color) =>
                      game_result_' = WinOf(color) /\ is_game_over(game_result_')
          ELSE game_result_ = "None" => game_result_' = "None"]_vars

\* a king has just stepped on the hill and its side has won
C17_Witness ==
    /\ pos.move_history_ # << >>
    /\ \E color \in {White, Black} :
          /\ pos.board_[pos.move_history_[Len(pos.move_history_)].to_square]
                = make_piece(color, King)
          /\ KingOnHill(pos, color)
          /\ game_result_ = WinOf(color)

\* the squares of the mailbox that hold a piece
Occupied(p) == {sq \in Squares : p.board_[sq] # PieceNone}

\* only the two kings remain on the board of p
TwoKingsRemain(p) ==
    /\ Cardinality(Occupied(p)) = 2
    /\ \A color \in {White, Black} :
          \E sq \in Occupied(p) : p.board_[sq] = make_piece(color, King)

\* C18: in a position in which only the two kings remain, whichever side is to
\* move, generate_legal_moves returns the empty list and evaluate returns 0.
C18_TwoKingsNoMovesNoScore ==
    TwoKingsRemain(search_position) =>
        generate_legal_moves(search_position) = << >> /\ evaluate(search_position) = 0

\* the search stands in a position where only the kings remain, Black to move,
\* after the white king took the last pawn
C18_Witness ==
    /\ TwoKingsRemain(search_position)
    /\ search_position.side_to_move_ = Black
    /\ search_position.move_history_ # << >>
    /\ stack # << >>
    /\ Top.fn = "quiescence"

\* pos is the k-th perft position
AtPerftPosition(k) == pos.move_history_ = << >> /\ to_fen(pos) = PerftFens[k]

\* C19: from each of the six perft positions, at each depth, the leaves of the
\* tree of generate_legal_moves and make_move are as many as the published count.
C19_PerftCounts ==
    \A k \in 1 .. Len(PerftFens) :
        AtPerftPosition(k) =>
            \A depth \in 1 .. PerftDepth : perft(pos, depth) = PerftCounts[k][depth]

\* the Kiwipete position is loaded and its tree of three plies has been counted
C19_Witness == AtPerftPosition(2) /\ perft(pos, 3) = 97862

\* the places of the lines << kind, g >> in the output
LinesOf(kind, g) == {i \in 1 .. Len(output) : output[i] = << kind, g >>}

\* C20: every info depth line of the search of a go command stands in the
\* output before the bestmove line of that command, and none stands after it.
C20_InfoBeforeBestmove ==
    \A g \in 1 .. Len(gos) :
        \A i \in LinesOf("info", g), j \in LinesOf("bestmove", g) : i < j

\* a search has printed the line of an iteration and the thread its info line,
\* and the bestmove line is out
C20_Witness ==
    \E g \in 1 .. Len(gos) :
        Cardinality(LinesOf("info", g)) >= 2 /\ LinesOf("bestmove", g) # {}

\* the entry store writes for these arguments, the score apart
WrittenBy(entry, age, key, depth, payload) ==
    /\ entry.key = key
    /\ entry.depth = depth
    /\ entry.bound_type = payload[1]
    /\ MoveEq(entry.best_move, payload[2])
    /\ entry.age = age

\* C21: store writes the slot of the key if and only if the slot is empty
\* (depth < 0), or its entry's age is not the current age, or the new depth is
\* at least the depth of its entry; otherwise the table is left as it was.
C21_StoreReplacesIff ==
    \A key \in TTKeys, score \in TTScores, depth \in TTDepths,
       payload \in TTPayloads, ply \in TTPlies :
        LET index == get_index(key)
            old == table_[index]
            stored == store(table_, current_age_, key, score, depth,
                            payload[1], payload[2], ply)
        IN  IF old.depth < 0 \/ old.age # current_age_ \/ depth >= old.depth
            THEN /\ WrittenBy(stored[index], current_age_, key, depth, payload)
                 /\ \A other \in TableIndices \ {index} : stored[other] = table_[other]
            ELSE stored = table_

\* one slot holds an entry of an earlier age, shallower stores to which are
\* accepted, and the other an entry of the current age and of depth 3,
\* shallower stores to which are refused
C21_Witness ==
    \E i, j \in TableIndices :
        /\ is_valid(table_[i]) /\ table_[i].age # current_age_ /\ table_[i].depth = 3
        /\ is_valid(table_[j]) /\ table_[j].age = current_age_ /\ table_[j].depth = 3

\* C22: a mate score stored at ply p into a slot that accepts it is returned
\* by a probe of the key at ply q as score + p - q when positive and as
\* score - p + q when negative.
C22_MateScoreFromProbingNode ==
    \A key \in TTKeys, score \in TTMateScores, depth \in TTDepths,
       payload \in TTPayloads, p \in TTPlies, q \in TTPlies :
        LET old == table_[get_index(key)]
            stored == store(table_, current_age_, key, score, depth,
                            payload[1], payload[2], p)
            r == probe(stored, key, q, NoProbe)
        IN  (~is_valid(old) \/ should_replace(old, depth, current_age_)) =>
                /\ r.found
                /\ r.score = IF score > 0 THEN score + p - q ELSE score - p + q

\* C23: an entry stored before a call of new_search is replaced by every later
\* store to its slot, whatever the two depths and however many calls of
\* new_search were made in between.
C23_OlderEntryReplaced ==
    \A key \in TTKeys, score \in TTScores, depth \in TTDepths,
       payload \in TTPayloads, ply \in TTPlies, calls \in NewSearchCalls :
        LET index == get_index(key)
            later_age == AgeAfter(current_age_, calls)
            stored == store(table_, later_age, key, score, depth, payload[1], payload[2], ply)
        IN  is_valid(table_[index]) =>
                WrittenBy(stored[index], later_age, key, depth, payload)

\* the best move, score and depth search_position retains
Retained(search, info) == << search.best_move, info.score, info.depth_reached >>

\* C24: when an iteration of search_position ends, its best move, score and
\* depth replace the retained ones if the stop flag is clear and the retained
\* ones stay if it is set; and no iteration starts while the flag is set.
C24_IterationRetainedIffNotStopped ==
    [][/\ (sp.pc = "in_root" /\ sp'.pc = "iterate") =>
             IF ~stop_search_
             THEN /\ MoveEq(sp'.best_move, sp.iteration_best_move)
                  /\ info_'.score = ret
                  /\ info_'.depth_reached = sp.depth
             ELSE Retained(sp', info_') = Retained(sp, info_)
       /\ (sp.pc = "iterate" /\ sp'.pc = "in_root") => ~stop_search_]_vars

\* the first iteration was retained, and the second, during which the flag was
\* set, has ended
C24_Witness ==
    /\ sp.pc = "iterate"
    /\ sp.depth = 3
    /\ stop_search_
    /\ stop_iteration = 2
    /\ info_.depth_reached = 1
    /\ sp.best_move.from_square # SquareNone

\* negamax_root or negamax is entered, the time is not up, and the side to
\* move has no legal move
NoMovesNode ==
    /\ stack # << >>
    /\ Top.fn \in {"negamax_root", "negamax"}
    /\ Top.pc = "enter"
    /\ ~EntryCheck.stop
    /\ generate_legal_moves(search_position) = << >>

\* C25: a node without legal moves returns -MATE_SCORE + p when the side to
\* move is in check, p being the ply of the node from the root of the search,
\* and 0 when it is not, however many moves were made before the search.
C25_MateScoreByPly ==
    [][(NoMovesNode /\ stack' = Pop) =>
          ret' = IF is_in_check(search_position) THEN -MATE_SCORE + Top.ply ELSE 0]_vars

\* C26: when search_position returns, the position it was given has the state
\* and the history it was called with: every move made by negamax_root,
\* negamax and quiescence has been undone.
C26_SearchRestoresPosition == sp.pc = "done" => search_position = pos

\* a search that has made and undone the moves of its first iteration and was
\* stopped during the second has returned
C26_Witness ==
    /\ sp.pc = "done"
    /\ Len(completed) = 1
    /\ stop_iteration = 2
    /\ info_.nodes_searched > 2

\* C27: for every legal move of the position, update_hash_make_move applied to
\* the hash of the position gives the hash hash_position computes for the
\* position after make_move.
C27_IncrementalHashMatches ==
    \A move \in Range(generate_legal_moves(pos)) :
        update_hash_make_move(hash_position(pos), pos, move)
            = hash_position(make_move(pos, move))

\* the step makes a move: the history grows by it
MoveMade == Len(pos'.move_history_) = Len(pos.move_history_) + 1
LastMove(p) == p.move_history_[Len(p.move_history_)]

\* `move`, made on p, takes a piece, moves a pawn or promotes one
ResetsClock(p, move) ==
    \/ piece_on(p, move.to_square) # PieceNone
    \/ move.move_type \in {"Capture", "EnPassant", "Promotion"}
    \/ type_of(piece_on(p, move.from_square)) = Pawn

\* C28: make_move sets the halfmove clock to 0 on a capture, an en-passant
\* capture, a pawn move and a promotion and adds 1 to it otherwise; it adds 1
\* to the fullmove number after a move of Black and leaves it after one of White.
C28_ClocksAfterMove ==
    [][MoveMade =>
          /\ pos'.halfmove_clock_ =
                 IF ResetsClock(pos, LastMove(pos')) THEN 0 ELSE pos.halfmove_clock_ + 1
          /\ pos'.fullmove_number_ =
                 IF pos.side_to_move_ = Black THEN pos.fullmove_number_ + 1
                 ELSE pos.fullmove_number_]_vars

\* Black has made a quiet move of a piece: the clock has gone up from a value
\* above 0, and the fullmove number is past 1
C28_Witness ==
    /\ pos.move_history_ # << >>
    /\ pos.side_to_move_ = White
    /\ LastMove(pos).move_type = "Normal"
    /\ type_of(piece_on(pos, LastMove(pos).to_square)) # Pawn
    /\ LastMove(pos).previous_halfmove_clock >= 1
    /\ pos.halfmove_clock_ = LastMove(pos).previous_halfmove_clock + 1
    /\ pos.fullmove_number_ >= 2

\* the search of the thread's go command has not returned
SearchNotReturned == thread.pc \in {"started", "copying", "copied", "searching"}

\* C29: once a stop command has been handled for a go command whose search has
\* not returned, the stop flag of the search stays set until the search returns.
C29_StopNotLost ==
    (SearchNotReturned /\ gos[thread.go].stopped) => stop_search_

\* the time handle_go gives find_best_move for go infinite
InfiniteTime == 0

\* C30: in a search started by go infinite the stop flag is never set by the
\* poll of the deadline at the entry of a node, which returns from the node:
\* it is set only by Search::stop, which leaves the stack of calls as it is.
C30_InfiniteNeverTimesOut ==
    [][(allocated_time_ms_ = InfiniteTime /\ sp.pc = "in_root"
            /\ ~stop_search_ /\ stop_search_') => stack' = stack]_vars

\* the step starts a search thread; the step is one of the command loop
ThreadStarts == thread'.pc = "started" /\ thread' # thread
LoopStep == loop' # loop \/ commands' # commands

\* C31: a search thread is started only when none was started before or the one
\* before has run to its end, and no step of the command loop touches the
\* transposition table.
C31_OneSearchThread ==
    [][/\ ThreadStarts => thread.pc \in {"none", "finished"}
       /\ LoopStep => UNCHANGED << table_, current_age_ >>]_vars

\* the thread of a second go command searches after the first go command got
\* its bestmove
C31_Witness ==
    /\ thread.go = 2
    /\ thread.pc = "searching"
    /\ BestmoveCount(1) = 1

\* C32: when quit or ucinewgame finds a search in flight and goes on to join
\* its thread, the stop flag the search reads is set by then.
C32_QuitAndNewgameStopSearch ==
    [][(loop.pc = "read" /\ loop'.pc \in {"quit_join", "newgame_join"}) =>
          stop_search_']_vars

\* the pieces on the board plus the pawns among them
PiecesPlusPawns(p) ==
    Cardinality(p.occupied_) + Cardinality(p.pieces_[White][Pawn] \cup p.pieces_[Black][Pawn])

\* the calls of quiescence on the stack
QuiescenceCalls(frames) == Cardinality({k \in 1 .. Len(frames) : frames[k].fn = "quiescence"})

\* quiescence makes a move and calls itself
QuiescenceDescends ==
    stack # << >> /\ Top.fn = "quiescence" /\ Len(stack') = Len(stack) + 1

to_string_NoPromotion(move) ==
    square_to_string(move.from_square) \o square_to_string(move.to_square)

\* Move::to_string
to_string(move) ==
    square_to_string(move.from_square) \o square_to_string(move.to_square)
    \o (IF move.move_type = "Promotion" /\ move.promotion_piece # PieceNone
        THEN << ToLower(piece_to_string(move.promotion_piece)) >>
        ELSE << >>)

\* what a move text carries after its two squares: nothing, a promotion
\* letter in either case, a letter that names no promotion piece
MoveSuffixes == { << >>, << "q" >>, << "r" >>, << "b" >>, << "n" >>, << "N" >>, << "k" >> }
\* squares a text names as the target in place of the target of a legal move
OtherTargets == { A1, E4, D8, H8 }

\* the move texts tried on a position: the squares of every legal move, and
\* the square of its piece with another target, each with every suffix
MoveTexts(legal_moves) ==
    UNION { { square_to_string(move.from_square) \o square_to_string(to) \o suffix :
                  to \in OtherTargets \cup { move.to_square },
                  suffix \in MoveSuffixes } :
            move \in Range(legal_moves) }

\* the legal moves between the two squares a text names
NamedBySquares(text, legal_moves) ==
    { move \in Range(legal_moves) :
          /\ move.from_square = string_to_square(SubSeq(text, 1, 2))
          /\ move.to_square = string_to_square(SubSeq(text, 3, 4)) }

\* the text has a fifth character, and it is a promotion letter
HasPromotionLetter(text) == Len(text) = 5 /\ InSeq(ToLower(text[5]), PromotionChars)

\* C34: parse_move of the to_string of a legal move of the position is that
\* move, with its from, to, kind and promotion piece; and parse_move gives the
\* null move for a text whose two squares are those of no legal move, for the
\* squares of a promotion without a promotion letter, and for the squares of a
\* move that is no promotion followed by a promotion letter.
C34_ParseMoveRoundTrip ==
    LET legal_moves == generate_legal_moves(pos)
        parsed(text) == parse_move_among(text, pos.side_to_move_, legal_moves)
    IN  /\ \A i \in DOMAIN legal_moves :
               LET move == legal_moves[i]
                   back == parsed(to_string(move))
               IN  /\ back.from_square = move.from_square
                   /\ back.to_square = move.to_square
                   /\ back.move_type = move.move_type
                   /\ back.promotion_piece = move.promotion_piece
        /\ \A text \in MoveTexts(legal_moves) :
               LET named == NamedBySquares(text, legal_moves)
               IN  (\/ named = {}
                    \/ (\A move \in named : move.move_type = "Promotion")
                          /\ Len(text) = 4
                    \/ (\A move \in named : move.move_type # "Promotion")
                          /\ HasPromotionLetter(text))
                   => parsed(text).from_square = SquareNone

\* a position in which a pawn can promote, whose promotion to a knight comes
\* back from its text and whose squares alone name no move
C34_Witness ==
    \E move \in Range(generate_legal_moves(pos)) :
        /\ move.move_type = "Promotion"
        /\ type_of(move.promotion_piece) = Knight
        /\ parse_move(to_string(move), pos) = move
        /\ parse_move(to_string_NoPromotion(move), pos) = NullMove

\* the step is the entry of negamax_root, negamax or quiescence
NodeEntry == stack # << >> /\ Top.pc = "enter" /\ stack' # stack

\* the entry at which should_check_time asks the TimeManager
PollDue == nodes_since_time_check_ = CheckFrequency - 1

\* C35: nodes_since_time_check_ stays in 0 .. CHECK_FREQUENCY - 1; every entry
\* of negamax_root, negamax or quiescence adds one to it, but for the entry
\* that finds it at CHECK_FREQUENCY - 1, which sets it to 0 and is the only
\* one at which the deadline of the TimeManager is asked; the start of a
\* search sets it to 0 and no other step changes it; an entry sets
\* stop_search_ exactly when it is such a poll and the deadline is reached.
C35_PollEveryCheckFrequency ==
    [][/\ nodes_since_time_check_' \in 0 .. CheckFrequency - 1
       /\ NodeEntry =>
              /\ nodes_since_time_check_' =
                     IF PollDue THEN 0 ELSE nodes_since_time_check_ + 1
              /\ (stop_search_' /\ ~stop_search_) =>
                     PollDue /\ should_stop(allocated_time_ms_, deadline_passed)
              /\ (PollDue /\ should_stop(allocated_time_ms_, deadline_passed)) =>
                     stop_search_'
       /\ searches' # searches => nodes_since_time_check_' = 0
       /\ (~NodeEntry /\ searches' = searches) =>
              nodes_since_time_check_' = nodes_since_time_check_]_vars

\* a search with no time has counted CHECK_FREQUENCY - 1 nodes and was
\* stopped by the poll at the entry of the next
C35_Witness ==
    /\ sp.pc = "in_root"
    /\ allocated_time_ms_ = 0
    /\ info_.nodes_searched = CheckFrequency - 1
    /\ nodes_since_time_check_ = 0
    /\ stop_search_

\* the counts undo_moves is called with
UndoCounts == 0 .. MaxHistory + 1

Min(a, b) == IF a < b THEN a ELSE b

\* C36: undo_move on a Position with an empty history leaves every field as it
\* is; undo_moves(n) shortens the history by min(n, move_count()); and on the
\* Position a move has just been made on, undo_moves(n) leaves what
\* undo_moves(n - 1) leaves on the Position before that move, which for n = 1
\* is that Position itself: the n moves made last are undone, and no more
\* than were made.
C36_UndoMovesRestores ==
    [][/\ pos.move_history_ = <<>> => undo_move(pos) = pos
       /\ \A n \in UndoCounts :
              Len(undo_moves(pos, n).move_history_) =
                  Len(pos.move_history_) - Min(n, Len(pos.move_history_))
       /\ Len(pos'.move_history_) = Len(pos.move_history_) + 1 =>
              /\ undo_moves(pos', 0) = pos'
              /\ undo_moves(pos', 1) = pos
              /\ \A n \in UndoCounts \ {0} :
                     undo_moves(pos', n) = undo_moves(pos, n - 1)]_vars

\* two moves have been made, and undo_moves of three gives the Position
\* before them, with no history, as undo_moves of two does
C36_Witness ==
    /\ Len(pos.move_history_) = 2
    /\ undo_moves(pos, 3) = undo_moves(pos, 2)
    /\ undo_moves(pos, 3).move_history_ = <<>>
    /\ undo_moves(pos, 3) # undo_moves(pos, 1)
    /\ undo_move(undo_moves(pos, 3)) = undo_moves(pos, 3)

=============================================================================
